---- MODULE Spec2Model ----
(***************************************************************************)
(* Model of the Monopoly environment of monopoly.c: the state of           *)
(* MonopolyEnv, create_monopoly_env, reset_monopoly_env and                *)
(* step_monopoly_env (jail logic, dice movement, cards, square             *)
(* resolution, bankruptcy liquidation); of its Monte Carlo agent (q_table, *)
(* update_mc, select_action_mc, the episode history, the loop of           *)
(* generate_episode_mc and the training loop of main); and of the batch    *)
(* training loop and the episode kernel of C_parallelized_Code.c.          *)
(***************************************************************************)
EXTENDS Integers, Sequences, FiniteSets, TLC

\* ---------------------------------------------------------------- constants
BOARD_SIZE == 40
MAX_PLAYERS == 8
JAIL_POSITION == 10
GO_TO_JAIL_POSITION == 30
JAIL_TURNS == 3
JAIL_FEE == 50
BANKRUPTCY_PENALTY == 1000
BUY_BONUS == 100
MAX_HOUSES == 5
DECK_SIZE == 4
OBS_MONEY_FACTOR == 10
MONEY_BIN == 100
TIE_INVERSE == 1000000000
INITIAL_CAPACITY == 100
FIRST_CAPACITY == 10
Q_TABLE_INITIAL_SIZE == 1024
NO_OWNER == 0 - 1

\* ------------------------------------------------------------------- bounds
\* Number of step_monopoly_env calls explored after a reset.
MaxSteps == 2
\* Number of step_monopoly_env calls explored from a mid-game state.
MidDepth == 1
\* Value of steps_taken in the mid-game states (any number of steps that is
\* enough to reach them).
MidSteps == 200
\* The jail scenario: its value of steps_taken, and the steps explored from it.
JailedPairSteps == 8
JailedPairDepth == 2
\* Longest trajectory handed to update_mc and number of update_mc calls.
MaxTrajLen == 3
MaxUpdates == 2
\* Largest value of rand(), standing for RAND_MAX.
RandMax == 12
\* Threads of a block and largest number of blocks of a kernel launch, standing
\* for the values 512 and 128 of the source.
THREADS_PER_BLOCK == 2
MAX_BLOCKS == 2
\* Largest episode budget of a batch run and largest seed of the random streams.
MaxEpisodes == 5
TrainEpisodes == 2
MaxSeed == 2
\* Mid-game states: squares and cash of the player to move, cash of the other
\* player, the squares that are owned and those of them that carry houses.
MidPositions == {0, 10, 28, 35}
MidCash == {40, 160, 1500}
MidOtherCash == {0}
MidOwnedSets == { {3}, {3, 5, 12, 13, 37, 39} }
MidBuilt == {3, 13, 39}
\* Configurations passed to create_monopoly_env.
PlayerCounts == {1, 2}
StartMoneys == {140, 1500}
GoRewards == {200}

Squares == 0 .. (BOARD_SIZE - 1)
DieFaces == 1 .. 6
\* The values dice1 + dice2 of one roll of the pair.
DiceTotals == {dice1 + dice2 : dice1 \in DieFaces, dice2 \in DieFaces}
Actions == {0, 1}
\* The StateTuples and rewards of the trajectories handed to update_mc: a free
\* player on the income tax square and a jailed player on the jail square;
\* the income tax and the bonus of a purchase.
TrajKeys ==
  { [position |-> 4, money_bin |-> 13, current_prop_owner |-> 0 - 1, in_jail |-> 0],
    [position |-> 10, money_bin |-> 15, current_prop_owner |-> 0 - 1, in_jail |-> 1] }
TrajRewards == {0 - 200, 100}
\* Mid-game states of an episode: the square and cash of the player to move,
\* the houses on that square when it is owned, and the values of epsilon.
EpisodePositions == {0, 1, 5, 10, 39}
EpisodeCash == {40, 160, 1500}
EpisodeHouses == {0, 4, 5}
Epsilons == { [num |-> 0, den |-> 1], [num |-> 1, den |-> 10], [num |-> 1, den |-> 1] }

\* --------------------------------------------------------- static board data
PriceTable ==
  << 0, 60, 0, 60, 0, 200, 100, 0, 100, 120,
     0, 140, 150, 140, 160, 200, 180, 0, 180, 200,
     0, 220, 0, 220, 240, 200, 260, 260, 150, 280,
     0, 300, 300, 0, 320, 200, 0, 350, 0, 400 >>

RentTable ==
  << 0, 2, 0, 4, 0, 25, 6, 0, 6, 8,
     0, 10, 10, 10, 12, 25, 14, 0, 14, 16,
     0, 18, 0, 18, 20, 25, 22, 22, 10, 24,
     0, 26, 26, 0, 28, 25, 0, 35, 0, 50 >>

HouseCostTable ==
  << 0, 50, 0, 50, 0, 100, 50, 0, 50, 50,
     0, 100, 75, 100, 100, 100, 100, 0, 100, 100,
     0, 150, 0, 150, 150, 100, 150, 150, 75, 150,
     0, 200, 200, 0, 200, 100, 0, 200, 0, 200 >>

price(i) == PriceTable[i + 1]
rent(i) == RentTable[i + 1]
house_cost(i) == HouseCostTable[i + 1]

get_fee_for_position(position) ==
  CASE position = 4 -> 200
    [] position = 38 -> 100
    [] OTHER -> 0

is_chance_position(position) == position \in {7, 22, 36}

is_chest_position(position) == position \in {2, 17, 33}

\* Card names by deck index.
chance_deck == << "Advance to Go", "Go to Jail", "Bank pays you dividend", "Pay poor tax" >>
chest_deck == << "Doctor's fee", "Income tax refund", "Go to Jail", "Advance to Go" >>

\* ------------------------------------------------------------------- state
VARIABLES
  num_players, start_money, go_reward,      \* configuration
  positions, money, in_jail, jail_counters, \* per player
  owner, houses,                            \* per square
  current_player, steps_taken, done,
  last_log,                                 \* LogEntry of the last step
  result,                                   \* StepResult of the last step
  jail_roll,                                \* dice1 + dice2 of the last jail check
  obs,                                      \* observation buffer of the caller
  env,                                      \* MonopolyEnv pointer of the caller
  epsilon,                                  \* MonteCarloAgent.epsilon, a fraction
  q_table,                                  \* MonteCarloAgent.q_table
  history,                                  \* EpisodeHistory.steps
  capacity,                                 \* EpisodeHistory.capacity
  recorded,                                 \* every (state, action, G) update_mc recorded
  updates,                                  \* number of update_mc calls made
  num_episodes,                             \* episode budget of the batch run
  batch,                                    \* loop variable of the training loop
  host_pc,                                  \* position of the host in the training loop
  workers,                                  \* kernel threads of the batch, by tid
  rand_states,                              \* d_rand_states, by tid
  d_episode_data,                           \* device episode slots, by tid
  h_episode_data,                           \* host copy of the episode slots
  ep,                                       \* loop variable of update_q_table_from_cuda_episodes
  merged                                    \* episodes applied to the q_table, in order

env_vars == << num_players, start_money, go_reward, positions, money, in_jail,
               jail_counters, owner, houses, current_player, steps_taken, done,
               last_log, result, jail_roll, obs, env >>

agent_vars == << epsilon, q_table, history, capacity, recorded, updates >>

batch_vars == << num_episodes, batch, host_pc, workers, rand_states,
                 d_episode_data, h_episode_data, ep, merged >>

vars == << env_vars, agent_vars, batch_vars >>

config == << num_players, start_money, go_reward, env >>

\* What the caller holds after create_monopoly_env(np, sm, gr) returned an
\* environment, and after it returned NULL: the pointer and the arguments of
\* the call.
created_env(np, sm, gr) ==
  [ptr |-> "allocated", num_players |-> np, start_money |-> sm, go_reward |-> gr]

null_env(np, sm, gr) ==
  [ptr |-> "NULL", num_players |-> np, start_money |-> sm, go_reward |-> gr]

Players == 0 .. (num_players - 1)

\* One message appended to the log description of a step: its kind, the
\* signed change of the acting player's cash it reports and two details.
Ev(tag, amt, x, y) == [tag |-> tag, amt |-> amt, x |-> x, y |-> y]

ZeroLog ==
  [ step |-> 0, player |-> 0, position_before |-> 0, dice_roll |-> 0,
    landed_on_position |-> 0, position_after |-> 0, money_before |-> 0,
    money_after |-> 0, reward |-> 0, done |-> FALSE, in_jail |-> FALSE,
    fee_paid |-> 0, action_desc |-> << >>, agent_action |-> 0,
    num_owned_properties |-> 0, card_drawn |-> "" ]

\* Working copy of the environment plus the locals of step_monopoly_env.
Ctx ==
  [ positions |-> positions, money |-> money, in_jail |-> in_jail,
    jail_counters |-> jail_counters, owner |-> owner, houses |-> houses,
    done |-> done,
    current_step_reward |-> 0, card_reward_contribution |-> 0,
    fee_paid_this_turn |-> 0, log_buffer |-> << >>,
    card_name_drawn |-> "", card_drawn |-> FALSE,
    turn_ends |-> FALSE, bankruptcy_resolved |-> FALSE ]

Log(c, tag, amt, x, y) == [c EXCEPT !.log_buffer = Append(@, Ev(tag, amt, x, y))]

\* ------------------------------------------------------------ card effects
adjust_money(c, player, amount) ==
  Log([c EXCEPT !.money[player] = @ + amount,
                !.card_reward_contribution = @ + amount],
      "Adjusted", amount, 0, 0)

advance_to_go(c, player) ==
  LET passed_go == c.positions[player] # 0
      c1 == [c EXCEPT !.positions[player] = 0]
  IN IF passed_go
       THEN Log([c1 EXCEPT !.money[player] = @ + go_reward,
                           !.card_reward_contribution = @ + go_reward],
                "AdvancedToGo", go_reward, 0, 0)
       ELSE Log(c1, "AdvancedToGo", 0, 0, 0)

\* go_to_jail that moves the player to the jail square as a visitor.
go_to_jail_visiting(c, player) ==
  Log([c EXCEPT !.positions[player] = JAIL_POSITION],
      "MovedToJail", 0, JAIL_POSITION, 0)

go_to_jail(c, player) ==
  Log([c EXCEPT !.positions[player] = JAIL_POSITION,
                !.in_jail[player] = TRUE,
                !.jail_counters[player] = 0],
      "MovedToJail", 0, JAIL_POSITION, 0)

card_effect(c, player, name) ==
  CASE name = "Advance to Go" -> advance_to_go(c, player)
    [] name = "Go to Jail" -> go_to_jail(c, player)
    [] name = "Bank pays you dividend" -> adjust_money(c, player, 50)
    [] name = "Pay poor tax" -> adjust_money(c, player, 0 - 15)
    [] name = "Doctor's fee" -> adjust_money(c, player, 0 - 50)
    [] name = "Income tax refund" -> adjust_money(c, player, 20)

\* Forfeiture loop: every square of the player goes back to the bank.
forfeit_all(c, p) ==
  [c EXCEPT !.owner = [i \in Squares |-> IF c.owner[i] = p THEN NO_OWNER ELSE c.owner[i]],
            !.houses = [i \in Squares |-> IF c.owner[i] = p THEN 0 ELSE c.houses[i]]]

num_owned(own, player) == Cardinality({i \in Squares : own[i] = player})

create_log_entry(c, steps, player, pos_before, dice, landed_on, money_before, reward, action) ==
  [ step |-> steps, player |-> player, position_before |-> pos_before,
    dice_roll |-> dice, landed_on_position |-> landed_on,
    position_after |-> c.positions[player], money_before |-> money_before,
    money_after |-> c.money[player], reward |-> reward, done |-> c.done,
    in_jail |-> c.in_jail[player], fee_paid |-> c.fee_paid_this_turn,
    action_desc |-> c.log_buffer, agent_action |-> action,
    num_owned_properties |-> num_owned(c.owner, player),
    card_drawn |-> c.card_name_drawn ]

\* ---------------------------------------------------------------- jail logic
\* jail_logic that charges the fee on every release.
jail_logic_fee_on_doubles(c, p, dice1, dice2) ==
  LET c1 == [c EXCEPT !.jail_counters[p] = @ + 1]
      rolled_doubles == dice1 = dice2
      turn_limit_reached == c1.jail_counters[p] >= JAIL_TURNS
  IN IF rolled_doubles \/ turn_limit_reached
       THEN Log([c1 EXCEPT !.in_jail[p] = FALSE, !.jail_counters[p] = 0,
                           !.money[p] = @ - JAIL_FEE,
                           !.fee_paid_this_turn = @ + JAIL_FEE,
                           !.card_reward_contribution = @ - JAIL_FEE],
                IF rolled_doubles THEN "JailDoubles" ELSE "JailFee",
                IF rolled_doubles THEN 0 ELSE 0 - JAIL_FEE, 0, 0)
     ELSE Log([c1 EXCEPT !.turn_ends = TRUE],
              "JailFail", 0, c1.jail_counters[p], 0)

\* jail_logic that releases on doubles only.
jail_logic_doubles_only(c, p, dice1, dice2) ==
  LET c1 == [c EXCEPT !.jail_counters[p] = @ + 1]
  IN IF dice1 = dice2
       THEN Log([c1 EXCEPT !.in_jail[p] = FALSE, !.jail_counters[p] = 0],
                "JailDoubles", 0, dice1, dice2)
     ELSE Log([c1 EXCEPT !.turn_ends = TRUE],
              "JailFail", 0, c1.jail_counters[p], 0)

jail_logic(c, p, dice1, dice2) ==
  LET c1 == [c EXCEPT !.jail_counters[p] = @ + 1]
      rolled_doubles == dice1 = dice2
      turn_limit_reached == c1.jail_counters[p] >= JAIL_TURNS
  IN IF rolled_doubles
       THEN Log([c1 EXCEPT !.in_jail[p] = FALSE, !.jail_counters[p] = 0],
                "JailDoubles", 0, dice1, dice2)
     ELSE IF turn_limit_reached
       THEN Log([c1 EXCEPT !.in_jail[p] = FALSE, !.jail_counters[p] = 0,
                           !.money[p] = @ - JAIL_FEE,
                           !.fee_paid_this_turn = @ + JAIL_FEE,
                           !.card_reward_contribution = @ - JAIL_FEE],
                "JailFee", 0 - JAIL_FEE, 0, 0)
     ELSE Log([c1 EXCEPT !.turn_ends = TRUE],
              "JailFail", 0, c1.jail_counters[p], 0)

\* Bankruptcy check of the failed-jail-roll return path.
jail_bankruptcy(c, p) ==
  IF c.money[p] < 0 /\ ~c.done
    THEN forfeit_all(
           Log([c EXCEPT !.done = TRUE,
                         !.card_reward_contribution = @ - BANKRUPTCY_PENALTY],
               "JailBankrupt", 0, 0, 0), p)
    ELSE c

\* result.reward of the failed-jail-roll return path.
jail_reward(c, c2, p) ==
  IF c.money[p] < 0 /\ ~c.done
    THEN c.card_reward_contribution + c2.card_reward_contribution
    ELSE c.card_reward_contribution

\* ------------------------------------------------------------------ movement
\* landed_position that moves one square short.
landed_position_short(prev_position, dice_total) ==
  (prev_position + dice_total - 1) % BOARD_SIZE

landed_position(prev_position, dice_total) == (prev_position + dice_total) % BOARD_SIZE

\* passed_go with the comparison of the two positions dropped.
passed_go_any_move(landed, prev_position, jailed) == ~jailed

passed_go(landed, prev_position, jailed) == landed < prev_position /\ ~jailed

movement(c, p, prev_position, dice_total) ==
  LET landed == landed_position(prev_position, dice_total)
      c1 == IF passed_go(landed, prev_position, c.in_jail[p])
               /\ prev_position # JAIL_POSITION
              THEN Log([c EXCEPT !.money[p] = @ + go_reward,
                                 !.current_step_reward = @ + go_reward],
                       "PassedGO", go_reward, 0, 0)
              ELSE c
  IN [c1 EXCEPT !.positions[p] = landed]

\* ------------------------------------------------------------ card handling
card_handling(c, p, card_index) ==
  LET pos == c.positions[p]
  IN IF is_chance_position(pos)
       THEN LET name == chance_deck[card_index + 1]
            IN card_effect(Log([c EXCEPT !.card_name_drawn = name, !.card_drawn = TRUE],
                               "Chance", 0, pos, card_index), p, name)
     ELSE IF is_chest_position(pos)
       THEN LET name == chest_deck[card_index + 1]
            IN card_effect(Log([c EXCEPT !.card_name_drawn = name, !.card_drawn = TRUE],
                               "Chest", 0, pos, card_index), p, name)
     ELSE c

\* ------------------------------------------------------------ square actions
\* rent_due with one more base rent per house.
rent_due_linear(prop_rent, prop_houses) == prop_rent * (prop_houses + 1)

rent_due(prop_rent, prop_houses) ==
  IF prop_houses > 0
    THEN CASE prop_houses = 1 -> prop_rent * 5
           [] prop_houses = 2 -> prop_rent * 15
           [] prop_houses = 3 -> prop_rent * 45
           [] prop_houses = 4 -> prop_rent * 80
           [] prop_houses = 5 -> prop_rent * 125
           [] OTHER -> prop_rent * (prop_houses + 1)
    ELSE prop_rent

\* rent_payment without the cap at the payer's cash.
rent_payment_uncapped(cash, due) == due

rent_payment(cash, due) == IF cash < due THEN cash ELSE due

\* can_afford with a strict comparison.
can_afford_strict(cash, prop_price) == cash > prop_price

can_afford(cash, prop_price) == cash >= prop_price

unowned_property(c, p, pos, action) ==
  LET prop_price == price(pos)
  IN IF can_afford(c.money[p], prop_price)
       THEN IF action = 1
              THEN Log([c EXCEPT !.current_step_reward = @ + BUY_BONUS,
                                 !.money[p] = @ - prop_price,
                                 !.owner[pos] = p,
                                 !.houses[pos] = 0],
                       "Buy", 0 - prop_price, pos, 0)
              ELSE Log(c, "NotBuy", 0, pos, 0)
       ELSE Log(c, "CannotAfford", 0, pos, 0)

\* owned_by_opponent that leaves the rent out of the reward.
owned_by_opponent_unrewarded(c, p, pos, prop_owner, prop_houses) ==
  LET due == rent_due(rent(pos), prop_houses)
      payment == rent_payment(c.money[p], due)
      c1 == [c EXCEPT !.money[p] = @ - payment]
      c2 == IF prop_owner >= 0 /\ prop_owner < num_players
              THEN [c1 EXCEPT !.money[prop_owner] = @ + payment]
              ELSE c1
  IN Log([c2 EXCEPT !.fee_paid_this_turn = @ + payment],
         "Rent", 0 - payment, prop_owner, pos)

owned_by_opponent(c, p, pos, prop_owner, prop_houses) ==
  LET due == rent_due(rent(pos), prop_houses)
      payment == rent_payment(c.money[p], due)
      c1 == [c EXCEPT !.money[p] = @ - payment]
      c2 == IF prop_owner >= 0 /\ prop_owner < num_players
              THEN [c1 EXCEPT !.money[prop_owner] = @ + payment]
              ELSE c1
  IN Log([c2 EXCEPT !.fee_paid_this_turn = @ + payment,
                    !.card_reward_contribution = @ - payment],
         "Rent", 0 - payment, prop_owner, pos)

\* owned_by_self without the cap on the number of houses.
owned_by_self_uncapped(c, p, pos, action) ==
  LET cost == house_cost(pos)
      current_houses == c.houses[pos]
  IN IF cost > 0 /\ c.money[p] >= cost /\ action = 1
       THEN Log([c EXCEPT !.houses[pos] = @ + 1, !.money[p] = @ - cost],
                "BoughtHouse", 0 - cost, pos, current_houses + 1)
       ELSE Log(c, "NoHouse", 0, pos, current_houses)

\* owned_by_self buying as many houses as the player can pay and the square
\* can take.
owned_by_self_all_affordable(c, p, pos, action) ==
  LET cost == house_cost(pos)
      current_houses == c.houses[pos]
      n == IF cost > 0 /\ c.money[p] \div cost < MAX_HOUSES - current_houses
             THEN c.money[p] \div cost ELSE MAX_HOUSES - current_houses
  IN IF cost > 0 /\ c.money[p] >= cost /\ current_houses < MAX_HOUSES /\ action = 1
       THEN Log([c EXCEPT !.houses[pos] = @ + n, !.money[p] = @ - n * cost],
                "BoughtHouse", 0 - n * cost, pos, current_houses + n)
       ELSE Log(c, "NoHouse", 0, pos, current_houses)

owned_by_self(c, p, pos, action) ==
  LET cost == house_cost(pos)
      can_buy_houses == cost > 0 /\ c.money[p] >= cost
      current_houses == c.houses[pos]
  IN IF can_buy_houses /\ current_houses < MAX_HOUSES
       THEN LET affordable_houses == c.money[p] \div cost
                max_new_houses == MAX_HOUSES - current_houses
                houses_can_buy == IF affordable_houses < max_new_houses
                                    THEN affordable_houses ELSE max_new_houses
            IN IF action = 1 /\ houses_can_buy > 0
                 THEN Log([c EXCEPT !.houses[pos] = @ + 1,
                                    !.money[p] = @ - cost],
                          "BoughtHouse", 0 - cost, pos, current_houses + 1)
                 ELSE Log(c, "NoHouse", 0, pos, current_houses)
     ELSE IF current_houses >= MAX_HOUSES
       THEN Log(c, "MaxHouses", 0, pos, current_houses)
     ELSE IF cost <= 0
       THEN Log(c, "NoHouseSupport", 0, pos, 0)
     ELSE Log(c, "CannotAffordHouse", 0, pos, cost)

square_actions(c, p, action) ==
  LET pos == c.positions[p]
      prop_owner == c.owner[pos]
      prop_houses == c.houses[pos]
  IN IF pos = GO_TO_JAIL_POSITION
       THEN IF ~c.card_drawn \/ c.card_name_drawn # "Go to Jail"
              THEN go_to_jail(Log(c, "GoToJailSquare", 0, pos, 0), p)
              ELSE c
     ELSE IF get_fee_for_position(pos) > 0
       THEN LET fee == get_fee_for_position(pos)
            IN Log([c EXCEPT !.money[p] = @ - fee,
                             !.fee_paid_this_turn = @ + fee,
                             !.card_reward_contribution = @ - fee],
                   "Fee", 0 - fee, pos, 0)
     ELSE IF price(pos) > 0
       THEN IF prop_owner = NO_OWNER THEN unowned_property(c, p, pos, action)
            ELSE IF prop_owner # p THEN owned_by_opponent(c, p, pos, prop_owner, prop_houses)
            ELSE owned_by_self(c, p, pos, action)
     ELSE IF pos # 0 /\ pos # JAIL_POSITION /\ ~is_chance_position(pos) /\ ~is_chest_position(pos)
       THEN Log(c, "NonAction", 0, pos, 0)
     ELSE c

\* ---------------------------------------------------------------- bankruptcy
RECURSIVE sell_houses(_, _, _)
sell_houses(c, p, i) ==
  IF i >= BOARD_SIZE THEN c
  ELSE IF c.owner[i] = p /\ c.houses[i] > 0 /\ house_cost(i) > 0
    THEN LET money_from_houses == c.houses[i] * (house_cost(i) \div 2)
             c1 == Log([c EXCEPT !.money[p] = @ + money_from_houses,
                                 !.houses[i] = 0],
                       "SoldHouses", money_from_houses, i, c.houses[i])
         IN IF c1.money[p] >= 0
              THEN [c1 EXCEPT !.bankruptcy_resolved = TRUE]
              ELSE sell_houses(c1, p, i + 1)
  ELSE sell_houses(c, p, i + 1)

RECURSIVE sell_properties(_, _, _)
sell_properties(c, p, i) ==
  IF i >= BOARD_SIZE THEN c
  ELSE IF c.owner[i] = p
    THEN IF c.houses[i] = 0 /\ price(i) > 0
           THEN LET sell_price == price(i) \div 2
                    c1 == Log([c EXCEPT !.money[p] = @ + sell_price,
                                        !.owner[i] = NO_OWNER],
                              "SoldProperty", sell_price, i, 0)
                IN IF c1.money[p] >= 0
                     THEN [c1 EXCEPT !.bankruptcy_resolved = TRUE]
                     ELSE sell_properties(c1, p, i + 1)
         ELSE IF c.houses[i] > 0
           THEN sell_properties(Log(c, "SkippedSelling", 0, i, 0), p, i + 1)
         ELSE sell_properties(c, p, i + 1)
  ELSE sell_properties(c, p, i + 1)

\* final_verdict that forfeits the squares but leaves the game running.
final_verdict_not_done(c, p) ==
  IF ~c.bankruptcy_resolved /\ c.money[p] < 0
    THEN Log([c EXCEPT !.card_reward_contribution = @ - BANKRUPTCY_PENALTY],
             "GameOver", 0, 0, 0)
  ELSE IF c.bankruptcy_resolved
    THEN Log(c, "Survived", 0, 0, 0)
  ELSE c

final_verdict(c, p) ==
  IF ~c.bankruptcy_resolved /\ c.money[p] < 0
    THEN forfeit_all(
           Log([c EXCEPT !.done = TRUE,
                         !.card_reward_contribution = @ - BANKRUPTCY_PENALTY],
               "GameOver", 0, 0, 0), p)
  ELSE IF c.bankruptcy_resolved
    THEN Log(c, "Survived", 0, 0, 0)
  ELSE c

\* check_bankruptcy without the phase that sells houses.
check_bankruptcy_properties_only(c, p) ==
  IF c.money[p] < 0 /\ ~c.done
    THEN final_verdict(sell_properties(Log(c, "Bankrupt", 0, 0, 0), p, 0), p)
    ELSE c

check_bankruptcy(c, p) ==
  IF c.money[p] < 0 /\ ~c.done
    THEN LET c1 == sell_houses(Log(c, "Bankrupt", 0, 0, 0), p, 0)
             c2 == IF ~c1.bankruptcy_resolved /\ c1.money[p] < 0
                     THEN sell_properties(c1, p, 0)
                     ELSE c1
         IN final_verdict(c2, p)
    ELSE c

next_player(cp) == (cp + 1) % num_players

\* ------------------------------------------------------------- observation
\* get_observation: positions, cash clamped at obs_money_high, jail flags,
\* owners and the index of the current player at the time of the call.
get_observation(pos, cash, jailed, own, cp) ==
  [ positions |-> pos,
    money |-> [i \in DOMAIN cash |->
                 IF cash[i] > start_money * OBS_MONEY_FACTOR
                   THEN start_money * OBS_MONEY_FACTOR ELSE cash[i]],
    in_jail |-> jailed,
    owner |-> own,
    current_player |-> cp ]

\* ------------------------------------------------------------------- agent
\* Integer division of C, which truncates towards zero.
c_div(a, b) == IF a >= 0 THEN a \div b ELSE 0 - ((0 - a) \div b)

\* _get_state_tuple_c: the StateTuple of the player the observation names as
\* current player.
get_state_tuple_c(o) ==
  LET current_player_idx == o.current_player
      player_pos == o.positions[current_player_idx]
      player_money == o.money[current_player_idx]
      player_in_jail == o.in_jail[current_player_idx]
      current_prop_owner == IF player_pos >= 0 /\ player_pos < BOARD_SIZE
                              THEN o.owner[player_pos] ELSE NO_OWNER
  IN [ position |-> player_pos,
       money_bin |-> c_div(player_money, MONEY_BIN),
       current_prop_owner |-> current_prop_owner,
       in_jail |-> IF player_in_jail THEN 1 ELSE 0 ]

compare_state_tuples(s1, s2) ==
  /\ s1.position = s2.position
  /\ s1.money_bin = s2.money_bin
  /\ s1.current_prop_owner = s2.current_prop_owner
  /\ s1.in_jail = s2.in_jail

\* QValueData after memset: sum 0, count 0, q_value 0.  A q_value is the
\* quotient num / den of two integers, den > 0; the sums are sums of
\* integer-valued rewards, so the quotient of the doubles is this fraction
\* up to rounding.
ZeroValue == [sum_returns |-> 0, count |-> 0, q_value |-> [num |-> 0, den |-> 1]]

\* create_q_hash_table: no entry.  The chains of the buckets are kept as one
\* list; an entry is found by compare_state_tuples, as in every chain.
EmptyTable == [entries |-> << >>, count |-> 0]

\* hash_state_tuple: the arithmetic is unsigned, modulo 2^32, and table_size
\* divides 2^32, so every line is the remainder modulo table_size.
hash_state_tuple(s, table_size) ==
  LET h1 == (17 * 31 + s.position) % table_size
      h2 == (h1 * 31 + s.money_bin) % table_size
      h3 == (h2 * 31 + (s.current_prop_owner + 10)) % table_size
  IN (h3 * 31 + s.in_jail) % table_size

\* A search that finds no entry.
find_q_entry_none(qt, key) == 0

\* Index of the entry of a key in the table, 0 if there is none: the first
\* entry of the chain of the key's bucket that compare_state_tuples accepts.
find_q_entry(qt, key) ==
  LET index == hash_state_tuple(key, Q_TABLE_INITIAL_SIZE)
      hits == {i \in DOMAIN qt.entries :
                 /\ hash_state_tuple(qt.entries[i].key, Q_TABLE_INITIAL_SIZE) = index
                 /\ compare_state_tuples(qt.entries[i].key, key)}
  IN IF hits = {} THEN 0 ELSE CHOOSE i \in hits : \A j \in hits : i <= j

\* find_or_create_q_entry: the table after the call and the index of the
\* entry of the key in it; a new entry is linked at the front.
find_or_create_q_entry(qt, key) ==
  LET found == find_q_entry(qt, key)
  IN IF found # 0
       THEN [table |-> qt, index |-> found]
       ELSE [ table |-> [ entries |-> << [key |-> key,
                                           values |-> [a \in Actions |-> ZeroValue]] >>
                                       \o qt.entries,
                          count |-> qt.count + 1 ],
              index |-> 1 ]

compare_visited_keys(k1, k2) ==
  k1.action = k2.action /\ compare_state_tuples(k1.state, k2.state)

\* check_and_add_visited with a line that never finds the key.
check_and_add_visited_never(vs, key) ==
  [present |-> FALSE, set |-> vs \cup {key}]

\* check_and_add_visited: whether the key was in the set, and the set after
\* the call.
check_and_add_visited(vs, key) ==
  LET present == \E e \in vs : compare_visited_keys(e, key)
  IN [present |-> present, set |-> IF present THEN vs ELSE vs \cup {key}]

\* The update of one action's QValueData with the mean taken before the
\* count is increased.
record_return_stale_mean(v, G) ==
  [ sum_returns |-> v.sum_returns + G,
    count |-> v.count + 1,
    q_value |-> IF v.count = 0 THEN [num |-> 0, den |-> 1]
                                ELSE [num |-> v.sum_returns + G, den |-> v.count] ]

\* The update of one action's QValueData that keeps the latest return in
\* place of the sum.
record_return_latest(v, G) ==
  [ sum_returns |-> G,
    count |-> v.count + 1,
    q_value |-> [num |-> G, den |-> 1] ]

\* update_mc, the update of one action's QValueData: sum_returns += G,
\* count++, q_value = sum_returns / count.
record_return(v, G) ==
  [ sum_returns |-> v.sum_returns + G,
    count |-> v.count + 1,
    q_value |-> [num |-> v.sum_returns + G, den |-> v.count + 1] ]

\* update_mc, the loop over the steps of the history from the last (index
\* i) to the first.  st holds the q_table, the visited set, the return G and
\* the list of what was recorded.
RECURSIVE update_mc_loop(_, _, _)
update_mc_loop(st, h, i) ==
  IF i < 1 THEN st
  ELSE
    LET state_tuple == h[i].state
        action == h[i].action
        G == st.G + h[i].reward
        current_key == [state |-> state_tuple, action |-> action]
        chk == check_and_add_visited(st.visited, current_key)
    IN IF chk.present
         THEN update_mc_loop([st EXCEPT !.G = G, !.visited = chk.set], h, i - 1)
         ELSE
           LET f == find_or_create_q_entry(st.q_table, state_tuple)
               v == record_return(f.table.entries[f.index].values[action], G)
               qt == [f.table EXCEPT !.entries[f.index].values[action] = v]
           IN update_mc_loop(
                [ q_table |-> qt, visited |-> chk.set, G |-> G,
                  recorded |-> Append(st.recorded,
                                      [state |-> state_tuple, action |-> action, G |-> G]) ],
                h, i - 1)

\* init_episode_history: the capacity of a new history; malloc_ok is the
\* outcome of the malloc of its steps.
init_episode_history(initial_capacity, malloc_ok) ==
  [steps |-> << >>, capacity |-> IF malloc_ok THEN initial_capacity ELSE 0]

\* add_episode_step on a history with steps h and capacity cap; realloc_ok
\* is the outcome of the realloc, should one be needed.  A failed realloc
\* keeps the old steps and does not add the new one.
add_episode_step(h, cap, step, realloc_ok) ==
  IF Len(h) >= cap
    THEN IF realloc_ok
           THEN [steps |-> Append(h, step),
                 capacity |-> IF cap > 0 THEN cap * 2 ELSE FIRST_CAPACITY]
           ELSE [steps |-> h, capacity |-> cap]
    ELSE [steps |-> Append(h, step), capacity |-> cap]

\* update_mc on the history h.
update_mc(h) ==
  LET st == update_mc_loop([ q_table |-> q_table, visited |-> {}, G |-> 0,
                             recorded |-> recorded ], h, Len(h))
  IN /\ q_table' = st.q_table
     /\ recorded' = st.recorded
     /\ updates' = updates + 1

\* select_action_mc: whether the current player stands, out of jail, on an
\* unowned square with a price that player can pay; this variant does not
\* look at the owner.
is_buyable_any_owner ==
  LET p == current_player
      pos == positions[p]
  IN /\ ~in_jail[p] /\ pos >= 0 /\ pos < BOARD_SIZE
     /\ price(pos) > 0 /\ money[p] >= price(pos)

is_buyable ==
  LET p == current_player
      pos == positions[p]
  IN /\ ~in_jail[p] /\ pos >= 0 /\ pos < BOARD_SIZE
     /\ price(pos) > 0 /\ owner[pos] = NO_OWNER /\ money[p] >= price(pos)

Abs(x) == IF x < 0 THEN 0 - x ELSE x

\* fabs(q_val_0 - q_val_1) < 1e-9 for two fractions: |x| / d < 1 / TIE_INVERSE.
q_values_tie(q0, q1) ==
  LET x == Abs(q0.num * q1.den - q1.num * q0.den)
      d == q0.den * q1.den
  IN x = 0 \/ (d - 1) \div x >= TIE_INVERSE

\* The exploiting choice with the comparison of the two values reversed.
greedy_action_lower(q_val_0, q_val_1, r) ==
  IF q_values_tie(q_val_0, q_val_1) THEN r % 2
  ELSE IF q_val_1.num * q_val_0.den < q_val_0.num * q_val_1.den THEN 1
  ELSE 0

\* select_action_mc, the exploiting choice: a random action on a tie, else
\* the action with the higher q_value; r is the value of rand().
greedy_action(q_val_0, q_val_1, r) ==
  IF q_values_tie(q_val_0, q_val_1) THEN r % 2
  ELSE IF q_val_1.num * q_val_0.den > q_val_0.num * q_val_1.den THEN 1
  ELSE 0

\* select_action_mc on the live environment with the values r1 and r2 of the
\* calls of rand(): the action and the q_table after the call.
select_action_mc(qt, eps, state_tuple, r1, r2) ==
  IF ~is_buyable
    THEN [action |-> 0, table |-> qt]
  ELSE IF r1 * eps.den < eps.num * RandMax
    THEN [action |-> r2 % 2, table |-> qt]
  ELSE
    LET f == find_or_create_q_entry(qt, state_tuple)
        entry == f.table.entries[f.index]
    IN [ action |-> greedy_action(entry.values[0].q_value, entry.values[1].q_value, r2),
         table |-> f.table ]

\* Every outcome of select_action_mc in the current state.
select_outcomes ==
  { select_action_mc(q_table, epsilon, get_state_tuple_c(obs), r1, r2) :
      r1 \in 0 .. RandMax, r2 \in 0 .. RandMax }

\* The agent before any episode, with epsilon 0.
AgentIdle ==
  /\ epsilon = [num |-> 0, den |-> 1]
  /\ q_table = EmptyTable
  /\ history = << >>
  /\ capacity = 0
  /\ recorded = << >>
  /\ updates = 0

\* The batch run not started.
BatchIdle ==
  /\ num_episodes = 0
  /\ batch = 0
  /\ host_pc = "idle"
  /\ workers = << >>
  /\ rand_states = << >>
  /\ d_episode_data = << >>
  /\ h_episode_data = << >>
  /\ ep = 0
  /\ merged = << >>
\* ------------------------------------------------------------------ actions
\* create_monopoly_env followed by reset_monopoly_env.
create_monopoly_env ==
  /\ num_players \in PlayerCounts
  /\ start_money \in StartMoneys
  /\ go_reward \in GoRewards
  /\ env = created_env(num_players, start_money, go_reward)
  /\ positions = [i \in Players |-> 0]
  /\ money = [i \in Players |-> start_money]
  /\ in_jail = [i \in Players |-> FALSE]
  /\ jail_counters = [i \in Players |-> 0]
  /\ owner = [i \in Squares |-> NO_OWNER]
  /\ houses = [i \in Squares |-> 0]
  /\ current_player = 0
  /\ steps_taken = 0
  /\ done = FALSE
  /\ last_log = ZeroLog
  /\ result = [reward |-> 0, done |-> FALSE]
  /\ jail_roll = 0
  /\ obs = get_observation(positions, money, in_jail, owner, 0)

\* The environment alone: the agent and the batch run are not started.
Init == create_monopoly_env /\ AgentIdle /\ BatchIdle

\* The LogEntry and StepResult left by a failed jail roll of player p, who
\* stays on the jail square with unchanged cash.
failed_jail_roll_log(steps, p, cash, counter, own) ==
  [ step |-> steps, player |-> p, position_before |-> JAIL_POSITION,
    dice_roll |-> 0, landed_on_position |-> JAIL_POSITION,
    position_after |-> JAIL_POSITION, money_before |-> cash,
    money_after |-> cash, reward |-> 0, done |-> FALSE, in_jail |-> TRUE,
    fee_paid |-> 0, action_desc |-> << Ev("JailFail", 0, counter, 0) >>,
    agent_action |-> 0, num_owned_properties |-> num_owned(own, p),
    card_drawn |-> "" ]

\* Mid-game states of a two-player game in which player 0 is to move and
\* player 1 has just failed a first jail roll.  Player 0 stands on one of
\* MidPositions, free or (on the jail square) jailed for 0 to 2 turns; the
\* squares of one of MidOwnedSets are owned by one player, those of MidBuilt
\* among them with h houses each, or no square is owned.  Every player's
\* cash is >= 0.
MidGame ==
  \E pos \in MidPositions, jailed \in BOOLEAN, counter \in 0 .. (JAIL_TURNS - 1),
     cash \in MidCash, other_cash \in MidOtherCash,
     o \in {NO_OWNER, 0, 1}, owned \in MidOwnedSets, h \in 0 .. MAX_HOUSES :
    /\ jailed => pos = JAIL_POSITION
    /\ ~jailed => counter = 0
    /\ o = NO_OWNER => (h = 0 /\ owned = {3})
    /\ num_players = 2
    /\ start_money = 1500
    /\ go_reward = 200
    /\ env = created_env(num_players, start_money, go_reward)
    /\ positions = [i \in 0 .. 1 |-> IF i = 0 THEN pos ELSE JAIL_POSITION]
    /\ money = [i \in 0 .. 1 |-> IF i = 0 THEN cash ELSE other_cash]
    /\ in_jail = [i \in 0 .. 1 |-> IF i = 0 THEN jailed ELSE TRUE]
    /\ jail_counters = [i \in 0 .. 1 |-> IF i = 0 THEN counter ELSE 1]
    /\ owner = [i \in Squares |-> IF i \in owned THEN o ELSE NO_OWNER]
    /\ houses = [i \in Squares |-> IF i \in owned \cap MidBuilt /\ o # NO_OWNER
                                    THEN h ELSE 0]
    /\ current_player = 0
    /\ steps_taken = MidSteps
    /\ done = FALSE
    /\ last_log = failed_jail_roll_log(MidSteps, 1, other_cash, 1, owner)
    /\ result = [reward |-> 0, done |-> FALSE]
    /\ jail_roll = 3
    /\ obs = get_observation(positions, money, in_jail, owner, 1)

\* The jail scenario: the state after these 8 steps of a two-player game
\* with start_money 140.  Player 0 rolls 6 and buys square 6 (cash 40);
\* player 1 rolls 10; player 0 rolls 11 and draws "Go to Jail" on square 17;
\* player 1 rolls 3 and buys square 13 (cash 0); player 0 fails a jail roll;
\* player 1 rolls 4 and draws "Go to Jail" on square 17; both fail a jail roll.
JailedPair ==
  /\ num_players = 2
  /\ start_money = 140
  /\ go_reward = 200
  /\ env = created_env(num_players, start_money, go_reward)
  /\ positions = [i \in 0 .. 1 |-> JAIL_POSITION]
  /\ money = [i \in 0 .. 1 |-> IF i = 0 THEN 40 ELSE 0]
  /\ in_jail = [i \in 0 .. 1 |-> TRUE]
  /\ jail_counters = [i \in 0 .. 1 |-> IF i = 0 THEN 2 ELSE 1]
  /\ owner = [i \in Squares |-> IF i = 6 THEN 0 ELSE IF i = 13 THEN 1 ELSE NO_OWNER]
  /\ houses = [i \in Squares |-> 0]
  /\ current_player = 0
  /\ steps_taken = JailedPairSteps
  /\ done = FALSE
  /\ last_log = failed_jail_roll_log(JailedPairSteps, 1, 0, 1, owner)
  /\ result = [reward |-> 0, done |-> FALSE]
  /\ jail_roll = 3
  /\ obs = get_observation(positions, money, in_jail, owner, 1)

MidInit == (MidGame \/ JailedPair) /\ AgentIdle /\ BatchIdle

\* The effect of reset_monopoly_env on the environment and the observation.
reset_env ==
  /\ positions' = [i \in Players |-> 0]
  /\ money' = [i \in Players |-> start_money]
  /\ in_jail' = [i \in Players |-> FALSE]
  /\ jail_counters' = [i \in Players |-> 0]
  /\ owner' = [i \in Squares |-> NO_OWNER]
  /\ houses' = [i \in Squares |-> 0]
  /\ current_player' = 0
  /\ steps_taken' = 0
  /\ done' = FALSE
  /\ last_log' = ZeroLog
  /\ obs' = get_observation(positions', money', in_jail', owner', 0)
  /\ UNCHANGED << config, result, jail_roll >>

reset_monopoly_env ==
  /\ reset_env
  /\ UNCHANGED << agent_vars, batch_vars >>

\* Writes the environment fields of a finished step back.
store_env(c) ==
  /\ positions' = c.positions
  /\ money' = c.money
  /\ in_jail' = c.in_jail
  /\ jail_counters' = c.jail_counters
  /\ owner' = c.owner
  /\ houses' = c.houses
  /\ done' = c.done
  /\ obs' = get_observation(c.positions, c.money, c.in_jail, c.owner, current_player)
  /\ UNCHANGED config

\* A step on a done environment that still counts as a step.
env_already_done_counted ==
  /\ done
  /\ result' = [reward |-> 0, done |-> done]
  /\ obs' = get_observation(positions, money, in_jail, owner, current_player)
  /\ steps_taken' = steps_taken + 1
  /\ last_log' = [last_log EXCEPT !.step = steps_taken + 1]
  /\ UNCHANGED << config, positions, money, in_jail, jail_counters, owner,
                  houses, current_player, done, jail_roll >>

\* step_monopoly_env on an environment that is already done.
env_already_done ==
  /\ done
  /\ result' = [reward |-> 0, done |-> done]
  /\ obs' = get_observation(positions, money, in_jail, owner, current_player)
  /\ UNCHANGED << config, positions, money, in_jail, jail_counters, owner,
                  houses, current_player, steps_taken, done, last_log, jail_roll >>

step_already_done ==
  /\ env_already_done
  /\ UNCHANGED << agent_vars, batch_vars >>

\* The exploration stops after MaxSteps steps from a reset, after MidDepth
\* steps from a mid-game state and after JailedPairDepth steps from the jail
\* scenario.
within_bounds ==
  IF steps_taken >= MidSteps
    THEN steps_taken < MidSteps + MidDepth
  ELSE IF steps_taken >= JailedPairSteps
    THEN steps_taken < JailedPairSteps + JailedPairDepth
  ELSE steps_taken < MaxSteps

\* step_monopoly_env, jailed player, no doubles and turn limit not reached.
step_failed_jail_roll(action, dice1, dice2) ==
  LET p == current_player
      prev_position == positions[p]
      c0 == jail_logic(Ctx, p, dice1, dice2)
      c1 == jail_bankruptcy(c0, p)
      reward == jail_reward(c0, c1, p)
  IN /\ c0.turn_ends
     /\ store_env(c1)
     /\ steps_taken' = steps_taken + 1
     /\ last_log' = create_log_entry(c1, steps_taken + 1, p, prev_position, 0,
                                     prev_position, money[p], reward, action)
     /\ result' = [reward |-> reward, done |-> c1.done]
     /\ jail_roll' = dice1 + dice2
     /\ current_player' = next_player(current_player)

\* step_monopoly_env from the dice roll of the normal turn on, for a player
\* who was free or has just been released (context c0).
step_turn(c0, action, dice_total, card_index) ==
  LET p == current_player
      prev_position == positions[p]
      c1 == movement(c0, p, prev_position, dice_total)
      c2 == card_handling(c1, p, card_index)
      c3 == square_actions(c2, p, action)
      c4 == check_bankruptcy(c3, p)
      reward == c4.current_step_reward + c4.card_reward_contribution
  IN /\ store_env(c4)
     /\ steps_taken' = steps_taken + 1
     /\ last_log' = create_log_entry(c4, steps_taken + 1, p, prev_position, dice_total,
                                     landed_position(prev_position, dice_total),
                                     money[p], reward, action)
     /\ result' = [reward |-> reward, done |-> c4.done]
     /\ current_player' = IF ~c4.done THEN next_player(current_player)
                                      ELSE current_player

\* Indices rand() can yield for the card draw of a move by dice_total.
card_indices(prev_position, dice_total) ==
  LET pos == landed_position(prev_position, dice_total)
  IN IF is_chance_position(pos) \/ is_chest_position(pos)
       THEN 0 .. (DECK_SIZE - 1)
       ELSE {0}

step_free_player(action, dice_total) ==
  /\ \E card_index \in card_indices(positions[current_player], dice_total) :
       step_turn(Ctx, action, dice_total, card_index)
  /\ jail_roll' = 0

step_released_player(action, jdice1, jdice2, dice_total) ==
  LET c0 == jail_logic(Ctx, current_player, jdice1, jdice2)
  IN /\ ~c0.turn_ends
     /\ \E card_index \in card_indices(positions[current_player], dice_total) :
          step_turn(c0, action, dice_total, card_index)
     /\ jail_roll' = jdice1 + jdice2

\* step_monopoly_env with the given action on an environment that is not done.
env_step(action) ==
  IF in_jail[current_player]
    THEN \E jdice1, jdice2 \in DieFaces :
           \/ step_failed_jail_roll(action, jdice1, jdice2)
           \/ \E dice_total \in DiceTotals :
                step_released_player(action, jdice1, jdice2, dice_total)
    ELSE \E dice_total \in DiceTotals : step_free_player(action, dice_total)

step_in_jail ==
  /\ ~done
  /\ within_bounds
  /\ in_jail[current_player]
  /\ \E action \in Actions : env_step(action)
  /\ UNCHANGED << agent_vars, batch_vars >>

step_not_in_jail ==
  /\ ~done
  /\ within_bounds
  /\ ~in_jail[current_player]
  /\ \E action \in Actions : env_step(action)
  /\ UNCHANGED << agent_vars, batch_vars >>

step_monopoly_env ==
  \/ step_already_done
  \/ step_in_jail
  \/ step_not_in_jail

Next ==
  \/ reset_monopoly_env
  \/ step_monopoly_env

Spec == Init /\ [][Next]_vars

\* The same program started in a mid-game state.
SpecMid == MidInit /\ [][Next]_vars

\* ------------------------------------------------------------ construction
\* Arguments create_monopoly_env is called with.
PlayerCountArgs == {0 - 1, 0, 1, 2, MAX_PLAYERS, MAX_PLAYERS + 1}
StartMoneyArgs == {0 - 100, 0, 10, 140}

\* A check of the player count that has no upper limit.
invalid_num_players_below(np) == np <= 0

\* create_monopoly_env, the check of num_players.
invalid_num_players(np) == np <= 0 \/ np > MAX_PLAYERS

\* Before create_monopoly_env is called: the caller holds no environment.
NoEnvironment ==
  /\ env = null_env(0, 0, 0)
  /\ num_players = 0
  /\ start_money = 0
  /\ go_reward = 0
  /\ positions = << >>
  /\ money = << >>
  /\ in_jail = << >>
  /\ jail_counters = << >>
  /\ owner = [i \in Squares |-> NO_OWNER]
  /\ houses = [i \in Squares |-> 0]
  /\ current_player = 0
  /\ steps_taken = 0
  /\ done = FALSE
  /\ last_log = ZeroLog
  /\ result = [reward |-> 0, done |-> FALSE]
  /\ jail_roll = 0
  /\ obs = get_observation(positions, money, in_jail, owner, 0)

CreateInit == NoEnvironment /\ AgentIdle /\ BatchIdle

\* One call create_monopoly_env(np, sm, gr) by a caller that holds no
\* environment; malloc_ok is the outcome of the malloc of the MonopolyEnv.
\* The observation buffer of the caller is not touched.
create_monopoly_env_call(np, sm, gr, malloc_ok) ==
  /\ env.ptr = "NULL"
  /\ IF invalid_num_players(np) \/ ~malloc_ok
       THEN /\ env' = null_env(np, sm, gr)
            /\ UNCHANGED << num_players, start_money, go_reward, positions, money,
                            in_jail, jail_counters, owner, houses, current_player,
                            steps_taken, done, last_log >>
       ELSE /\ env' = created_env(np, sm, gr)
            /\ go_reward' = gr
            /\ start_money' = sm
            /\ num_players' = np
            /\ owner' = [i \in Squares |-> NO_OWNER]
            /\ houses' = [i \in Squares |-> 0]
            /\ current_player' = 0
            /\ steps_taken' = 0
            /\ done' = FALSE
            /\ positions' = [i \in 0 .. (np - 1) |-> 0]
            /\ money' = [i \in 0 .. (np - 1) |-> sm]
            /\ in_jail' = [i \in 0 .. (np - 1) |-> FALSE]
            /\ jail_counters' = [i \in 0 .. (np - 1) |-> 0]
            /\ last_log' = ZeroLog
  /\ UNCHANGED << result, jail_roll, obs, agent_vars, batch_vars >>

create_call ==
  \E np \in PlayerCountArgs, sm \in StartMoneyArgs, gr \in GoRewards, malloc_ok \in BOOLEAN :
    create_monopoly_env_call(np, sm, gr, malloc_ok)

\* reset_monopoly_env and step_monopoly_env are called with the environment
\* create_monopoly_env returned.
reset_created == env.ptr = "allocated" /\ reset_monopoly_env

step_created == env.ptr = "allocated" /\ step_monopoly_env

CreateNext ==
  \/ create_call
  \/ reset_created
  \/ step_created

SpecCreate == CreateInit /\ [][CreateNext]_vars

\* ------------------------------------------------------ update_mc on its own
EpisodeSteps == [state : TrajKeys, action : Actions, reward : TrajRewards]

\* The histories generate_episode_mc can return, up to a length: one
\* EpisodeStep per executed step.
Trajectories == UNION { [1 .. n -> EpisodeSteps] : n \in 1 .. MaxTrajLen }

UpdateInit ==
  /\ create_monopoly_env
  /\ num_players = 2
  /\ start_money = 1500
  /\ AgentIdle
  /\ BatchIdle

\* One iteration of the training loop of main: generate_episode_mc returns a
\* history, update_mc applies it.
training_iteration ==
  /\ updates < MaxUpdates
  /\ \E h \in Trajectories :
       /\ history' = h
       /\ capacity' = INITIAL_CAPACITY
       /\ update_mc(h)
  /\ UNCHANGED << env_vars, epsilon, batch_vars >>

UpdateNext == training_iteration

SpecUpdate == UpdateInit /\ [][UpdateNext]_vars

\* ------------------------------------------------- generate_episode_mc
\* Mid-game states of a two-player episode in which player 0 is to move and
\* player 1 has just failed a first jail roll: player 0 stands free on one of
\* EpisodePositions, which is unowned or owned by either player with h houses.
EpisodeMid ==
  \E pos \in EpisodePositions, cash \in EpisodeCash,
     o \in {NO_OWNER, 0, 1}, h \in EpisodeHouses :
    /\ price(pos) = 0 => o = NO_OWNER
    /\ o = NO_OWNER => h = 0
    /\ num_players = 2
    /\ start_money = 1500
    /\ go_reward = 200
    /\ env = created_env(num_players, start_money, go_reward)
    /\ positions = [i \in 0 .. 1 |-> IF i = 0 THEN pos ELSE JAIL_POSITION]
    /\ money = [i \in 0 .. 1 |-> IF i = 0 THEN cash ELSE 0]
    /\ in_jail = [i \in 0 .. 1 |-> i = 1]
    /\ jail_counters = [i \in 0 .. 1 |-> i]
    /\ owner = [i \in Squares |-> IF i = pos THEN o ELSE NO_OWNER]
    /\ houses = [i \in Squares |-> IF i = pos THEN h ELSE 0]
    /\ current_player = 0
    /\ steps_taken = MidSteps
    /\ done = FALSE
    /\ last_log = failed_jail_roll_log(MidSteps, 1, 0, 1, owner)
    /\ result = [reward |-> 0, done |-> FALSE]
    /\ jail_roll = 3
    /\ obs = get_observation(positions, money, in_jail, owner, 1)

\* The agent at the start of the exploration: any epsilon of Epsilons, and a
\* q_table that is empty or holds the statistics update_mc leaves for the
\* key of the observation after one episode in which Pass and Buy were each
\* chosen once.  history holds the steps added from here on.
EpisodeAgent ==
  \E r0 \in {0, 0 - 200, 100} :
    LET key == get_state_tuple_c(obs)
        h == << [state |-> key, action |-> 0, reward |-> r0],
                [state |-> key, action |-> 1, reward |-> 0 - 100 - r0] >>
        st == update_mc_loop([ q_table |-> EmptyTable, visited |-> {}, G |-> 0,
                               recorded |-> << >> ], h, IF r0 = 0 THEN 0 ELSE 2)
    IN /\ epsilon \in Epsilons
       /\ q_table = st.q_table
       /\ recorded = st.recorded
       /\ updates = (IF r0 = 0 THEN 0 ELSE 1)
       /\ history = << >>
       /\ capacity = INITIAL_CAPACITY

EpisodeInit ==
  /\ create_monopoly_env \/ EpisodeMid
  /\ EpisodeAgent
  /\ BatchIdle

\* One iteration of the loop of generate_episode_mc: the state tuple of the
\* observation, select_action_mc, step_monopoly_env, add_episode_step.
generate_episode_step ==
  /\ ~done
  /\ within_bounds
  /\ \E sel \in select_outcomes, realloc_ok \in BOOLEAN :
       /\ env_step(sel.action)
       /\ q_table' = sel.table
       /\ LET added == add_episode_step(history, capacity,
                                        [ state |-> get_state_tuple_c(obs),
                                          action |-> sel.action,
                                          reward |-> result'.reward ], realloc_ok)
          IN history' = added.steps /\ capacity' = added.capacity
  /\ UNCHANGED << epsilon, recorded, updates, batch_vars >>

EpisodeNext == generate_episode_step

SpecEpisode == EpisodeInit /\ [][EpisodeNext]_vars

\* ------------------------------------------------- main, the training loop
\* Dice totals of the episodes of the training loop: squares 3 (a street)
\* and 4 (a tax).
TrainDiceTotals == {3, 4}

\* main up to the training loop, with the parameters of main and
\* TrainEpisodes episodes.
TrainInit ==
  /\ create_monopoly_env
  /\ num_players = 2
  /\ start_money = 1500
  /\ epsilon = [num |-> 1, den |-> 10]
  /\ q_table = EmptyTable
  /\ history = << >>
  /\ capacity = 0
  /\ recorded = << >>
  /\ updates = 0
  /\ num_episodes = TrainEpisodes
  /\ batch = 0
  /\ host_pc = "generate"
  /\ workers = << >>
  /\ rand_states = << >>
  /\ d_episode_data = << >>
  /\ h_episode_data = << >>
  /\ ep = 0
  /\ merged = << >>

\* generate_episode_mc up to its loop: init_episode_history, the malloc of
\* the observation buffer and reset_monopoly_env.  Without an observation
\* buffer the history returns with count -1 and main leaves the loop.
generate_episode_begin ==
  /\ host_pc = "generate"
  /\ ep < num_episodes
  /\ \E malloc_ok \in BOOLEAN, obs_ok \in BOOLEAN :
       LET h == init_episode_history(INITIAL_CAPACITY, malloc_ok)
       IN /\ history' = h.steps
          /\ capacity' = h.capacity
          /\ IF obs_ok
               THEN reset_env /\ host_pc' = "episode"
               ELSE UNCHANGED env_vars /\ host_pc' = "stopped"
  /\ UNCHANGED << epsilon, q_table, recorded, updates, num_episodes, batch, workers,
                  rand_states, d_episode_data, h_episode_data, ep, merged >>

\* One iteration of the loop of generate_episode_mc inside the training loop.
train_episode_step ==
  /\ host_pc = "episode"
  /\ generate_episode_step
  /\ last_log'.dice_roll \in TrainDiceTotals

\* The loop of generate_episode_mc is left, main hands the history to
\* update_mc and frees it.
train_update ==
  /\ host_pc = "episode"
  /\ done \/ ~within_bounds
  /\ update_mc(history)
  /\ history' = << >>
  /\ capacity' = 0
  /\ merged' = Append(merged, [episode_id |-> ep, batch |-> 0, slot |-> 0])
  /\ ep' = ep + 1
  /\ host_pc' = "generate"
  /\ UNCHANGED << env_vars, epsilon, num_episodes, batch, workers, rand_states,
                  d_episode_data, h_episode_data >>

\* The training loop has run num_episodes episodes.
train_end ==
  /\ host_pc = "generate"
  /\ ep >= num_episodes
  /\ host_pc' = "finished"
  /\ UNCHANGED << env_vars, agent_vars, num_episodes, batch, workers, rand_states,
                  d_episode_data, h_episode_data, ep, merged >>

TrainNext ==
  \/ generate_episode_begin
  \/ train_episode_step
  \/ train_update
  \/ train_end

SpecTrain == TrainInit /\ [][TrainNext]_vars

\* ------------------------------------------------------------- batch run
\* main of the parallel program: the training loop launches one kernel thread
\* per episode slot of a batch, waits for the kernel, copies the episode slots
\* to the host and applies them to the q_table.
\* Number of values of curand(), standing for 2^32 with RAND_MAX = 2^31 - 1.
CurandRange == 2 * RandMax + 2

\* curand_init(seed, idx, 0, &states[idx]): the stream of sequence idx.
curand_init(seed, idx) == [seed |-> seed, sequence |-> idx, offset |-> 0]

\* curand: the value a stream yields at its offset, a fixed function of the
\* seed, the sequence and the offset.
curand(st) ==
  ((st.seed + 1) * (7 * st.sequence + 11 * st.offset + 3) + st.offset * st.offset)
    % CurandRange

\* The stream after one draw.
curand_next(st) == [st EXCEPT !.offset = @ + 1]

cuda_rand(st) == curand(st) % RandMax

\* cuda_rand_float(state) < eps: curand_uniform yields a value of (0, 1].
cuda_rand_float_below(st, eps) == (curand(st) + 1) * eps.den < eps.num * CurandRange

\* Batch sizing of main.
num_blocks ==
  LET n == (num_episodes + THREADS_PER_BLOCK - 1) \div THREADS_PER_BLOCK
  IN IF n > MAX_BLOCKS THEN MAX_BLOCKS ELSE n

episodes_per_batch == THREADS_PER_BLOCK * num_blocks

num_batches == (num_episodes + episodes_per_batch - 1) \div episodes_per_batch

batch_offset(b) == b * episodes_per_batch

\* Every batch has all the slots.
batch_size_full(b) == episodes_per_batch

batch_size(b) ==
  IF b = num_batches - 1 /\ num_episodes % episodes_per_batch # 0
    THEN num_episodes % episodes_per_batch
    ELSE episodes_per_batch

batch_blocks(b) == (batch_size(b) + THREADS_PER_BLOCK - 1) \div THREADS_PER_BLOCK

Tids == 0 .. (episodes_per_batch - 1)

\* An episode slot no kernel thread has written.
UnwrittenEpisode == [steps |-> << >>, count |-> 0, log_count |-> 0, episode_id |-> 0 - 1]

\* A kernel thread that has not been launched.
NoThread == [pc |-> "none"]

\* simulate_episodes_kernel up to the loop, for the stream state local_state
\* read from the thread's slot: the thread and its episode slot.
kernel_setup(local_state, tid, episode_offset) ==
  [ w |-> [ pc |-> "loop",
            local_state |-> local_state,
            env_state |->
              [ positions |-> [i \in Players |-> 0],
                money |-> [i \in Players |-> start_money],
                in_jail |-> [i \in Players |-> FALSE],
                jail_counters |-> [i \in Players |-> 0],
                property_owners |-> [i \in Squares |-> NO_OWNER],
                current_player |-> 0,
                steps_taken |-> 0,
                done |-> FALSE,
                rand_state |-> local_state ],
            step_count |-> 0 ],
    episode |-> [ steps |-> << >>, count |-> 0, log_count |-> 0,
                  episode_id |-> tid + episode_offset ] ]

\* Chance and Community Chest of the kernel: the card effect on env_state s
\* for player p.
kernel_card(s, p, name) ==
  IF name = "Advance to Go"
    THEN [s EXCEPT !.positions[p] = 0, !.money[p] = @ + go_reward]
  ELSE IF name = "Go to Jail"
    THEN [s EXCEPT !.positions[p] = JAIL_POSITION, !.in_jail[p] = TRUE,
                   !.jail_counters[p] = 0]
  ELSE IF name = "Bank pays you dividend"
    THEN [s EXCEPT !.money[p] = @ + 50]
  ELSE IF name = "Pay poor tax"
    THEN [s EXCEPT !.money[p] = @ - 15]
  ELSE IF name = "Doctor's fee"
    THEN [s EXCEPT !.money[p] = @ - 50]
  ELSE [s EXCEPT !.money[p] = @ + 20]

\* One iteration of the loop of simulate_episodes_kernel on thread w with
\* episode slot e: the thread and the slot after it, and the state tuple, the
\* purchase test, the exploration test and the action of the iteration.
kernel_iteration(w, e) ==
  LET s0 == w.env_state
      p == s0.current_player
      prev_money == s0.money[p]
      prev_position == s0.positions[p]
      r1 == s0.rand_state
      dice1 == (cuda_rand(r1) % 6) + 1
      r2 == curand_next(r1)
      dice2 == (cuda_rand(r2) % 6) + 1
      r3 == curand_next(r2)
      dice_total == dice1 + dice2
      new_position == (prev_position + dice_total) % BOARD_SIZE
      money1 == IF new_position < prev_position /\ ~s0.in_jail[p]
                  THEN prev_money + go_reward ELSE prev_money
      prop_owner == s0.property_owners[new_position]
      prop_price == price(new_position)
      prop_rent == rent(new_position)
      offered == prop_price > 0 /\ prop_owner = NO_OWNER /\ money1 >= prop_price
      explore == offered /\ cuda_rand_float_below(r3, epsilon)
      r4 == IF offered THEN curand_next(r3) ELSE r3
      action == IF ~offered THEN 0
                ELSE IF explore THEN cuda_rand(r4) % 2 ELSE 1
      r5 == IF explore THEN curand_next(r4) ELSE r4
      money2 == IF offered
                  THEN (IF action = 1 THEN money1 - prop_price ELSE money1)
                ELSE IF prop_owner # NO_OWNER /\ prop_owner # p
                  THEN money1 - prop_rent
                ELSE money1
      owners2 == IF offered /\ action = 1
                   THEN [s0.property_owners EXCEPT ![new_position] = p]
                   ELSE s0.property_owners
      bankrupt == money2 < 0
      reward == IF bankrupt THEN money2 - prev_money - BANKRUPTCY_PENALTY
                            ELSE money2 - prev_money
      s1 == [s0 EXCEPT !.positions[p] = new_position, !.money[p] = money2,
                       !.property_owners = owners2,
                       !.done = IF bankrupt THEN TRUE ELSE @]
      drawn == is_chance_position(new_position) \/ is_chest_position(new_position)
      card_idx == cuda_rand(r5) % DECK_SIZE
      r6 == IF drawn THEN curand_next(r5) ELSE r5
      s2 == IF is_chance_position(new_position)
              THEN kernel_card(s1, p, chance_deck[card_idx + 1])
            ELSE IF is_chest_position(new_position)
              THEN kernel_card(s1, p, chest_deck[card_idx + 1])
            ELSE s1
      state == [ position |-> prev_position,
                 money_bin |-> c_div(prev_money, MONEY_BIN),
                 current_prop_owner |-> prop_owner,
                 in_jail |-> IF s2.in_jail[p] THEN 1 ELSE 0 ]
      e1 == [e EXCEPT !.log_count = @ + 1]
      e2 == IF e1.count < MaxSteps
              THEN [e1 EXCEPT !.steps = Append(@, [state |-> state, action |-> action,
                                                  reward |-> reward]),
                              !.count = @ + 1]
              ELSE e1
  IN [ w |-> [w EXCEPT !.env_state =
                         [s2 EXCEPT !.current_player = (@ + 1) % num_players,
                                    !.steps_taken = @ + 1,
                                    !.rand_state = r6],
                       !.step_count = @ + 1],
       episode |-> e2,
       state |-> state, offered |-> offered, explore |-> explore, action |-> action ]

\* The condition of the loop of the kernel.
kernel_running(w) == ~w.env_state.done /\ w.step_count < MaxSteps

\* rand_states[tid] as the kernel thread tid reads it; the variant reads the
\* slot of thread 0.
rand_state_of_first(rs, tid) == rs[0]

rand_state_of(rs, tid) == rs[tid]

\* The kernel of the current batch has completed; the variant does not wait.
kernel_complete_unchecked == TRUE

kernel_complete == \A t \in Tids : workers[t].pc \in {"none", "done"}

\* main up to the training loop, with the parameters of main.
BatchInit ==
  /\ create_monopoly_env
  /\ num_players = 2
  /\ start_money = 1500
  /\ go_reward = 200
  /\ env = created_env(num_players, start_money, go_reward)
  /\ epsilon = [num |-> 1, den |-> 10]
  /\ q_table = EmptyTable
  /\ history = << >>
  /\ capacity = 0
  /\ recorded = << >>
  /\ updates = 0
  /\ num_episodes \in 1 .. MaxEpisodes
  /\ batch = 0
  /\ host_pc = "launch"
  /\ workers = [t \in Tids |-> NoThread]
  /\ \E seed \in 0 .. MaxSeed : rand_states = [t \in Tids |-> curand_init(seed, t)]
  /\ d_episode_data = [t \in Tids |-> UnwrittenEpisode]
  /\ h_episode_data = [t \in Tids |-> UnwrittenEpisode]
  /\ ep = 0
  /\ merged = << >>

\* simulate_episodes_kernel<<<batch_blocks, threads_per_block>>>: the threads
\* of the launch exist and none has run.
kernel_launch ==
  /\ host_pc = "launch"
  /\ workers' = [t \in Tids |->
                   IF t < batch_blocks(batch) * THREADS_PER_BLOCK
                     THEN [pc |-> "start"] ELSE NoThread]
  /\ host_pc' = "sync"
  /\ UNCHANGED << env_vars, agent_vars, num_episodes, batch, rand_states,
                  d_episode_data, h_episode_data, ep, merged >>

\* Kernel thread tid reads its stream and initialises its state and its
\* episode slot.
kernel_begin(tid) ==
  /\ workers[tid].pc = "start"
  /\ LET k == kernel_setup(rand_state_of(rand_states, tid), tid, batch_offset(batch))
     IN /\ workers' = [workers EXCEPT ![tid] = k.w]
        /\ d_episode_data' = [d_episode_data EXCEPT ![tid] = k.episode]
  /\ UNCHANGED << env_vars, agent_vars, num_episodes, batch, host_pc, rand_states,
                  h_episode_data, ep, merged >>

\* Kernel thread tid makes one iteration of its loop.
kernel_step(tid) ==
  /\ workers[tid].pc = "loop"
  /\ kernel_running(workers[tid])
  /\ LET k == kernel_iteration(workers[tid], d_episode_data[tid])
     IN /\ workers' = [workers EXCEPT ![tid] = k.w]
        /\ d_episode_data' = [d_episode_data EXCEPT ![tid] = k.episode]
  /\ UNCHANGED << env_vars, agent_vars, num_episodes, batch, host_pc, rand_states,
                  h_episode_data, ep, merged >>

\* Kernel thread tid leaves the loop, saves its stream and ends.
kernel_end(tid) ==
  /\ workers[tid].pc = "loop"
  /\ ~kernel_running(workers[tid])
  /\ rand_states' = [rand_states EXCEPT ![tid] = workers[tid].env_state.rand_state]
  /\ workers' = [workers EXCEPT ![tid].pc = "done"]
  /\ UNCHANGED << env_vars, agent_vars, num_episodes, batch, host_pc,
                  d_episode_data, h_episode_data, ep, merged >>

\* cudaDeviceSynchronize returns.
cudaDeviceSynchronize ==
  /\ host_pc = "sync"
  /\ kernel_complete
  /\ host_pc' = "memcpy"
  /\ UNCHANGED << env_vars, agent_vars, num_episodes, batch, workers, rand_states,
                  d_episode_data, h_episode_data, ep, merged >>

\* cudaMemcpy of the first batch_size episode slots to the host, and the
\* entry of update_q_table_from_cuda_episodes.
cudaMemcpy ==
  /\ host_pc = "memcpy"
  /\ h_episode_data' = [t \in Tids |->
                          IF t < batch_size(batch) THEN d_episode_data[t]
                                                   ELSE h_episode_data[t]]
  /\ ep' = 0
  /\ host_pc' = "update"
  /\ UNCHANGED << env_vars, agent_vars, num_episodes, batch, workers, rand_states,
                  d_episode_data, merged >>

\* One iteration of the loop of update_q_table_from_cuda_episodes: the
\* episode of slot ep is copied to a history and handed to update_mc.
update_from_episode ==
  /\ host_pc = "update"
  /\ ep < batch_size(batch)
  /\ LET episode == h_episode_data[ep]
     IN /\ history' = SubSeq(episode.steps, 1, episode.count)
        /\ capacity' = episode.count
        /\ update_mc(SubSeq(episode.steps, 1, episode.count))
        /\ merged' = Append(merged, [episode_id |-> episode.episode_id,
                                     batch |-> batch, slot |-> ep])
  /\ ep' = ep + 1
  /\ UNCHANGED << env_vars, epsilon, num_episodes, batch, host_pc, workers,
                  rand_states, d_episode_data, h_episode_data >>

\* The end of an iteration of the training loop.
batch_end ==
  /\ host_pc = "update"
  /\ ep >= batch_size(batch)
  /\ batch' = batch + 1
  /\ host_pc' = IF batch + 1 < num_batches THEN "launch" ELSE "finished"
  /\ UNCHANGED << env_vars, agent_vars, num_episodes, workers, rand_states,
                  d_episode_data, h_episode_data, ep, merged >>

BatchNext ==
  \/ kernel_launch
  \/ \E tid \in Tids : kernel_begin(tid)
  \/ \E tid \in Tids : kernel_step(tid)
  \/ \E tid \in Tids : kernel_end(tid)
  \/ cudaDeviceSynchronize
  \/ cudaMemcpy
  \/ update_from_episode
  \/ batch_end

SpecBatch == BatchInit /\ [][BatchNext]_vars

\* ------------------------------------------------------ reading a LogEntry
HasEvent(log, tag) ==
  \E i \in DOMAIN log.action_desc : log.action_desc[i].tag = tag

EventIndices(log, tag) ==
  {i \in DOMAIN log.action_desc : log.action_desc[i].tag = tag}

\* Sum of the cash changes reported by the events of a description whose tag
\* is in tags.
RECURSIVE SumAmt(_, _)
SumAmt(desc, tags) ==
  IF desc = << >> THEN 0
  ELSE (IF Head(desc).tag \in tags THEN Head(desc).amt ELSE 0) + SumAmt(Tail(desc), tags)

AllTags ==
  { "PassedGO", "Adjusted", "AdvancedToGo", "MovedToJail", "Chance", "Chest",
    "JailDoubles", "JailFee", "JailFail", "JailBankrupt", "GoToJailSquare",
    "Fee", "Buy", "NotBuy", "CannotAfford", "Rent", "BoughtHouse", "NoHouse",
    "MaxHouses", "NoHouseSupport", "CannotAffordHouse", "NonAction",
    "Bankrupt", "SoldHouses", "SoldProperty", "SkippedSelling", "GameOver",
    "Survived" }

\* The transition is a step of a game that was not over.
Stepped == steps_taken' = steps_taken + 1

Min(a, b) == IF a < b THEN a ELSE b

\* The player was released from jail in the step of this log.
Released(log) == HasEvent(log, "JailDoubles") \/ HasEvent(log, "JailFee")

\* ------------------------------------------------------------------- claims

\* C1: in every reachable state every square's house count is between 0 and 5
\* and is 0 whenever the square has no owner.
C1_HouseCounts ==
  \A i \in Squares :
    /\ houses[i] \in 0 .. MAX_HOUSES
    /\ owner[i] = NO_OWNER => houses[i] = 0

\* C1 witness: a player chose Buy on an own square that already carries a hotel.
C1_Witness ==
  /\ HasEvent(last_log, "MaxHouses")
  /\ last_log.agent_action = 1
  /\ houses[positions[last_log.player]] = MAX_HOUSES
  /\ owner[positions[last_log.player]] = last_log.player

\* C2: whenever a step finds the acting player's cash negative, at the end of
\* that step the player's cash is >= 0, or the game is done and the player
\* owns no square.
C2_BankruptcyOutcome ==
  LET p == last_log.player
  IN (HasEvent(last_log, "Bankrupt") \/ HasEvent(last_log, "JailBankrupt"))
       => \/ money[p] >= 0
          \/ done /\ num_owned(owner, p) = 0

\* C2 witness: the player sold houses and a property, stayed in debt and the
\* game ended.
C2_Witness ==
  /\ HasEvent(last_log, "Bankrupt")
  /\ HasEvent(last_log, "SoldHouses")
  /\ HasEvent(last_log, "SoldProperty")
  /\ money[last_log.player] < 0
  /\ done

\* C3: when the acting player ends on a square owned by another player, the
\* amount paid is min(payer's cash, rent due), it is debited from the payer and
\* credited to the owner, and it never exceeds the payer's cash before payment.
C3_RentStep ==
  LET log == last_log'
      p == log.player
      pos == positions'[p]
      o == owner[pos]
  IN (Stepped /\ log.dice_roll > 0 /\ price(pos) > 0 /\ o # NO_OWNER /\ o # p)
       => /\ Cardinality(EventIndices(log, "Rent")) = 1
          /\ LET i == CHOOSE j \in EventIndices(log, "Rent") : TRUE
                 payment == 0 - log.action_desc[i].amt
                 cash == log.money_before
                           + SumAmt(SubSeq(log.action_desc, 1, i - 1), AllTags)
                 due == rent_due(rent(pos), houses[pos])
             IN /\ payment = Min(cash, due)
                /\ payment <= cash
                /\ money'[p] = cash - payment
                /\ money'[o] = money[o] + payment

C3_RentPayment == [][C3_RentStep]_vars

\* C3 witness: the rent due exceeded the payer's cash and the payer paid all of
\* their cash.
C3_Witness ==
  /\ HasEvent(last_log, "Rent")
  /\ last_log.money_before > 0
  /\ last_log.fee_paid = last_log.money_before
  /\ money[last_log.player] = 0
  /\ rent_due(rent(positions[last_log.player]), houses[positions[last_log.player]])
       > last_log.money_before

\* C4: the movement phase credits the pass-GO amount exactly once iff the new
\* position is below the old one and the old one is not the jail square; a
\* move that does not wrap credits nothing, whatever the number of pips.
C4_PassGo ==
  LET log == last_log
      wraps == /\ log.landed_on_position < log.position_before
               /\ log.position_before # JAIL_POSITION
      credited == log.money_after - log.money_before
                    - SumAmt(log.action_desc, AllTags \ {"PassedGO"})
  IN log.dice_roll > 0
       => /\ credited = IF wraps THEN go_reward ELSE 0
          /\ Cardinality(EventIndices(log, "PassedGO")) = IF wraps THEN 1 ELSE 0

\* C4 witness: a move from square 35 past square 0 that only collected the
\* pass-GO amount.
C4_Witness ==
  /\ HasEvent(last_log, "PassedGO")
  /\ last_log.position_before = 35
  /\ last_log.landed_on_position \in 1 .. 7
  /\ last_log.money_after = last_log.money_before + go_reward

\* C5 as claimed: when a jailed player is released in a step, the distance
\* moved in that step equals the sum of the pair rolled for the jail check.
C5_SameDicePair ==
  Released(last_log)
    => (last_log.landed_on_position - last_log.position_before + BOARD_SIZE)
         % BOARD_SIZE = jail_roll

\* C5 amended: when a jailed player is released in a step, the player moves by
\* the sum of a second pair rolled after the release (the dice_roll of the
\* log), which need not be the sum of the pair rolled for the jail check.
C5_SecondRoll ==
  LET log == last_log
      p == log.player
  IN Released(log)
       => /\ log.dice_roll \in DiceTotals
          /\ log.position_before = JAIL_POSITION
          /\ log.landed_on_position = JAIL_POSITION + log.dice_roll
          /\ (~HasEvent(log, "MovedToJail") /\ ~HasEvent(log, "AdvancedToGo"))
               => positions[p] = log.landed_on_position

\* C5 witness: a released player moved by a total other than the jail roll.
C5_Witness ==
  /\ Released(last_log)
  /\ last_log.dice_roll # jail_roll
  /\ positions[last_log.player] = JAIL_POSITION + last_log.dice_roll

\* C6: for a jailed player doubles release without a fee, a third roll without
\* doubles releases with a fee of exactly 50; the release clears in_jail and
\* resets jail_turn_count, and the player moves in that same step.
C6_Release ==
  /\ (~done /\ in_jail[current_player]) =>
       \A dice1, dice2 \in DieFaces :
         LET p == current_player
             c == jail_logic(Ctx, p, dice1, dice2)
             limit == jail_counters[p] + 1 >= JAIL_TURNS
         IN /\ dice1 = dice2 =>
                 /\ ~c.turn_ends /\ ~c.in_jail[p] /\ c.jail_counters[p] = 0
                 /\ c.money[p] = money[p] /\ c.fee_paid_this_turn = 0
            /\ (dice1 # dice2 /\ limit) =>
                 /\ ~c.turn_ends /\ ~c.in_jail[p] /\ c.jail_counters[p] = 0
                 /\ c.money[p] = money[p] - 50 /\ c.fee_paid_this_turn = 50
            /\ (dice1 # dice2 /\ ~limit) => c.turn_ends /\ c.in_jail[p]
  /\ Released(last_log) =>
       LET log == last_log
           p == log.player
       IN /\ log.dice_roll >= 2
          /\ log.landed_on_position # log.position_before
          /\ jail_counters[p] = 0
          /\ in_jail[p] = HasEvent(log, "MovedToJail")
          /\ ~(HasEvent(log, "JailDoubles") /\ HasEvent(log, "JailFee"))
          /\ log.money_after = log.money_before + SumAmt(log.action_desc, AllTags)
          /\ SumAmt(log.action_desc, {"JailDoubles", "JailFee"})
               = IF HasEvent(log, "JailFee") THEN 0 - 50 ELSE 0

\* C6 witness: a player left jail at the turn limit, paid 50 and moved away.
C6_Witness ==
  /\ HasEvent(last_log, "JailFee")
  /\ ~in_jail[last_log.player]
  /\ jail_counters[last_log.player] = 0
  /\ positions[last_log.player] # JAIL_POSITION
  /\ last_log.money_after = last_log.money_before - 50

\* C7 as claimed: a failed jail roll (no doubles, turn limit not reached) ends
\* the step with no movement, no change to any cash or ownership, reward 0,
\* jail_turn_count increased by one and the turn passed to the next player.
C7_FailedJailRollStep ==
  (Stepped /\ HasEvent(last_log', "JailFail"))
    => /\ positions' = positions
       /\ money' = money
       /\ owner' = owner
       /\ houses' = houses
       /\ result'.reward = 0
       /\ jail_counters'[current_player] = jail_counters[current_player] + 1
       /\ current_player' = (current_player + 1) % num_players

C7_FailedJailRoll == [][C7_FailedJailRollStep]_vars

\* C8: ending on an unowned ownable square with cash >= price and action Buy
\* debits exactly the price, makes the player the owner and sets 0 houses.
C8_BuyStep ==
  LET log == last_log'
      p == log.player
      pos == positions'[p]
      cash == log.money_before + SumAmt(log.action_desc, {"PassedGO", "JailFee"})
  IN (/\ Stepped /\ log.dice_roll > 0
      /\ pos # GO_TO_JAIL_POSITION /\ get_fee_for_position(pos) = 0
      /\ price(pos) > 0 /\ owner[pos] = NO_OWNER
      /\ cash >= price(pos) /\ log.agent_action = 1)
       => /\ money'[p] = cash - price(pos)
          /\ owner'[pos] = p
          /\ houses'[pos] = 0
          /\ \A i \in Squares \ {pos} : owner'[i] = owner[i]

C8_Buy == [][C8_BuyStep]_vars

\* C8 witness: a player with cash 1500 bought a square priced 60 and holds 1440.
C8_Witness ==
  /\ HasEvent(last_log, "Buy")
  /\ last_log.money_before = 1500
  /\ price(positions[last_log.player]) = 60
  /\ money[last_log.player] = 1440
  /\ owner[positions[last_log.player]] = last_log.player
  /\ houses[positions[last_log.player]] = 0

\* The reward terms the events of a log stand for, bankruptcy penalty excluded.
RewardTerms(log) ==
  SumAmt(log.action_desc, {"PassedGO", "Adjusted", "AdvancedToGo", "JailFee", "Fee", "Rent"})
    + BUY_BONUS * Cardinality(EventIndices(log, "Buy"))

\* C9 as claimed: a step makes the game terminal only when the acting player's
\* cash is still negative after every house was sold and every property
\* forfeited by the liquidation; then the penalty 1000 is subtracted once from
\* the reward and every square of that player is unowned with 0 houses.
C9_TerminalStep ==
  LET log == last_log'
      p == current_player
  IN (Stepped /\ done')
       => /\ money'[p] < 0
          /\ \A i \in Squares :
               owner[i] = p =>
                 /\ \E j \in EventIndices(log, "SoldProperty") : log.action_desc[j].x = i
                 /\ houses[i] > 0 =>
                      \E j \in EventIndices(log, "SoldHouses") : log.action_desc[j].x = i
                 /\ owner'[i] = NO_OWNER
                 /\ houses'[i] = 0
          /\ log.reward = RewardTerms(log) - BANKRUPTCY_PENALTY

C9_TerminalOnlyAfterLiquidation == [][C9_TerminalStep]_vars

\* C10 as claimed: after a step that does not end the game current_player has
\* advanced by one modulo the player count, after a step that ends the game it
\* has not advanced, on every return path.
C10_TurnStep ==
  Stepped =>
    current_player' = IF done' THEN current_player
                               ELSE (current_player + 1) % num_players

C10_TurnAdvance == [][C10_TurnStep]_vars

\* ------------------------------------------------- reading the q_table
\* The QValueData of a key and an action, zero if the key has no entry.
TableValue(qt, key, a) ==
  LET i == find_q_entry(qt, key)
  IN IF i = 0 THEN ZeroValue ELSE qt.entries[i].values[a]

\* The (state, action) pairs of a history.
PairsOf(h) == { [state |-> h[i].state, action |-> h[i].action] : i \in DOMAIN h }

Occurrences(h, e) == { i \in DOMAIN h : h[i].state = e.state /\ h[i].action = e.action }

RECURSIVE SumRewards(_, _)
SumRewards(h, i) == IF i > Len(h) THEN 0 ELSE h[i].reward + SumRewards(h, i + 1)

\* The return following the earliest occurrence of a pair in a history.
FirstVisitReturn(h, e) ==
  SumRewards(h, CHOOSE i \in Occurrences(h, e) : \A j \in Occurrences(h, e) : i <= j)

\* The transition is a call of update_mc on history'.
Updated == updates' = updates + 1

\* Every pair a check speaks about: those of the history and of the table.
KnownPairs(h, qt) ==
  PairsOf(h) \cup { [state |-> qt.entries[i].key, action |-> a] :
                       i \in DOMAIN qt.entries, a \in Actions }

RECURSIVE SumRecorded(_, _)
SumRecorded(rec, e) ==
  IF rec = << >> THEN 0
  ELSE (IF Head(rec).state = e.state /\ Head(rec).action = e.action THEN Head(rec).G ELSE 0)
       + SumRecorded(Tail(rec), e)

CountRecorded(rec, e) ==
  Cardinality({ i \in DOMAIN rec : rec[i].state = e.state /\ rec[i].action = e.action })

\* C11 as claimed: the return update_mc adds for a pair of the trajectory is
\* the sum of the rewards from the earliest occurrence of the pair to the end
\* of the trajectory.
C11_UpdateStep ==
  Updated =>
    \A e \in PairsOf(history') :
      TableValue(q_table', e.state, e.action).sum_returns
        - TableValue(q_table, e.state, e.action).sum_returns
        = FirstVisitReturn(history', e)

C11_FirstVisitReturn == [][C11_UpdateStep]_vars

\* C12: one call of update_mc raises the visit count of a pair by exactly 1 if
\* the pair occurs in the trajectory, however often, and by 0 if it does not.
C12_UpdateStep ==
  Updated =>
    \A e \in KnownPairs(history', q_table') :
      TableValue(q_table', e.state, e.action).count
        - TableValue(q_table, e.state, e.action).count
        = IF e \in PairsOf(history') THEN 1 ELSE 0

C13_Statistics ==
  \A i \in DOMAIN q_table.entries, a \in Actions :
    LET v == q_table.entries[i].values[a]
        e == [state |-> q_table.entries[i].key, action |-> a]
    IN /\ v.count = CountRecorded(recorded, e)
       /\ v.count > 0 =>
            /\ v.sum_returns = SumRecorded(recorded, e)
            /\ v.q_value.den > 0
            /\ v.q_value.num * v.count = v.sum_returns * v.q_value.den

\* C13 witness: two calls recorded two different returns for one pair.
C13_Witness ==
  /\ updates = 2
  /\ \E i \in DOMAIN q_table.entries, a \in Actions :
       LET v == q_table.entries[i].values[a]
       IN /\ v.count = 2
          /\ v.sum_returns = 0 - 100
          /\ v.q_value = [num |-> 0 - 100, den |-> 2]

\* ---------------------------------------------- reading an episode step
\* The transition is an iteration of the loop of generate_episode_mc.
EpisodeStepped == Len(history') = Len(history) + 1

\* The StateTuple of the player whose turn it is.
ActingKey ==
  get_state_tuple_c(get_observation(positions, money, in_jail, owner, current_player))

SelectedActions == { sel.action : sel \in select_outcomes }

\* The square of the player to move is unowned, has a price and the player
\* can pay it.
UnownedAffordable ==
  LET p == current_player
      pos == positions[p]
  IN price(pos) > 0 /\ owner[pos] = NO_OWNER /\ money[p] >= price(pos)

\* The square of the player to move is their own, has fewer than 5 houses
\* and the player can pay a house.
OwnImprovable ==
  LET p == current_player
      pos == positions[p]
  IN owner[pos] = p /\ houses[pos] < MAX_HOUSES /\ money[p] >= house_cost(pos)

\* The square of the player to move is not ownable, or is owned by another
\* player, or is their own with 5 houses or a house cost they cannot pay.
NoRealDecision ==
  LET p == current_player
      pos == positions[p]
  IN \/ price(pos) = 0
     \/ owner[pos] # NO_OWNER /\ owner[pos] # p
     \/ owner[pos] = p /\ (houses[pos] >= MAX_HOUSES \/ money[p] < house_cost(pos))

\* The stored means of the key select_action_mc is called with.
StoredMean(a) == TableValue(q_table, get_state_tuple_c(obs), a).q_value

MeansDiffer == ~q_values_tie(StoredMean(0), StoredMean(1))

HigherMeanAction ==
  IF StoredMean(1).num * StoredMean(0).den > StoredMean(0).num * StoredMean(1).den
    THEN 1 ELSE 0

\* C14 as claimed: the key stored at a trajectory step is the abstraction of
\* the player who acts at that step, in the state the action was selected in.
C14_EpisodeStep ==
  EpisodeStepped => history'[Len(history')].state = ActingKey

C14_KeyOfActingPlayer == [][C14_EpisodeStep]_vars

\* C15: select_action_mc returns Pass, for every epsilon and every q_table,
\* whenever the square of the player to move offers no real decision.
C15_PassOnNonDecision ==
  NoRealDecision => SelectedActions = {0}

\* C15 witness: with epsilon 1 a step was made with Pass by a player standing
\* on an own square with 5 houses whose price the player could pay.
C15_Witness ==
  /\ Len(history) = 1
  /\ epsilon = [num |-> 1, den |-> 1]
  /\ history[1].action = 0
  /\ last_log.position_before = 39
  /\ last_log.money_before = 1500
  /\ owner[39] = last_log.player
  /\ houses[39] = MAX_HOUSES

\* C16 as claimed: with epsilon 1, on an unowned affordable square and on an
\* own square with fewer than 5 houses and an affordable house cost, both
\* Pass and Buy are possible results of select_action_mc.
C16_BothPossible ==
  (epsilon = [num |-> 1, den |-> 1] /\ (UnownedAffordable \/ OwnImprovable))
    => SelectedActions = {0, 1}

Simulating == \E t \in Tids : workers[t].pc \in {"start", "loop"}

\* Number of episodes of batch b applied so far.
AppliedOf(b) == Cardinality({i \in DOMAIN merged : merged[i].batch = b})

\* The loop of the kernel run to its end on thread w and slot e, with no
\* other thread.
RECURSIVE kernel_loop_alone(_, _)
kernel_loop_alone(w, e) ==
  IF kernel_running(w)
    THEN LET k == kernel_iteration(w, e) IN kernel_loop_alone(k.w, k.episode)
    ELSE [w |-> w, episode |-> e]

\* The episode and the saved stream of thread tid in batch b when the thread
\* runs alone in every batch, from the stream curand_init gives it.
RECURSIVE AloneRun(_, _, _)
AloneRun(seed, tid, b) ==
  LET local_state == IF b = 0 THEN curand_init(seed, tid)
                              ELSE AloneRun(seed, tid, b - 1).rand_state
      k == kernel_setup(local_state, tid, batch_offset(b))
      f == kernel_loop_alone(k.w, k.episode)
  IN [episode |-> f.episode, rand_state |-> f.w.env_state.rand_state]

\* The batch whose kernel was launched last.
LaunchedBatch == IF host_pc \in {"launch", "finished"} THEN batch - 1 ELSE batch

RECURSIVE SumBatchSizes(_)
SumBatchSizes(n) == IF n = 0 THEN 0 ELSE SumBatchSizes(n - 1) + batch_size(n - 1)

\* C18: a trajectory is applied to the q_table only when every kernel thread
\* of its batch has ended, the trajectories of a batch are applied one by one
\* in ascending thread index from the slots the threads left, the q_table
\* changes in no other step, and no kernel thread moves while the host
\* copies or applies the batch.
C18_Step ==
  /\ merged' # merged =>
       /\ ~Simulating
       /\ workers' = workers
       /\ d_episode_data' = d_episode_data
       /\ Len(merged') = Len(merged) + 1
       /\ SubSeq(merged', 1, Len(merged)) = merged
       /\ LET m == merged'[Len(merged')]
          IN /\ m.batch = batch
             /\ m.slot = AppliedOf(batch)
             /\ \A i \in DOMAIN merged : merged[i].batch <= batch
             /\ workers[m.slot].pc = "done"
             /\ history' = d_episode_data[m.slot].steps
  /\ q_table' # q_table => merged' # merged
  /\ workers' # workers => host_pc \in {"launch", "sync"} /\ merged' = merged

C18_DrainAfterBatch == [][C18_Step]_vars

\* C18 witness: in a batch of four threads three trajectories have been
\* applied and the fourth is still to be applied.
C18_Witness ==
  /\ host_pc = "update"
  /\ num_episodes = 4
  /\ ep = 3
  /\ Len(merged) = 3
  /\ updates = 3

\* C19: a step that leaves a kernel thread where it is leaves that thread's
\* stream slot and episode slot as they are, a step of a kernel thread
\* changes neither the q_table nor the host's data, and every kernel thread
\* that has ended has left in its episode slot and in its stream slot what
\* it leaves when it runs alone.
C19_Step ==
  /\ \A t \in Tids :
       workers'[t] = workers[t] =>
         d_episode_data'[t] = d_episode_data[t] /\ rand_states'[t] = rand_states[t]
  /\ (host_pc' = host_pc /\ workers' # workers) =>
       UNCHANGED << q_table, recorded, h_episode_data, merged, env_vars >>

C19_Ended ==
  \A t \in Tids :
    workers[t].pc = "done" =>
      LET alone == AloneRun(rand_states[t].seed, t, LaunchedBatch)
      IN /\ d_episode_data[t] = alone.episode
         /\ rand_states[t] = alone.rand_state

C19_PrivateSlots == [][C19_Step]_vars /\ []C19_Ended

\* C19 witness: the four threads of a batch have ended and two of them have
\* left different trajectories.
C19_Witness ==
  /\ host_pc = "sync"
  /\ Cardinality(Tids) = 4
  /\ \A t \in Tids : workers[t].pc = "done"
  /\ d_episode_data[0].count = MaxSteps
  /\ d_episode_data[0].steps # d_episode_data[1].steps

ClaimedRewardTerms(log) ==
  SumAmt(log.action_desc,
         {"PassedGO", "Adjusted", "AdvancedToGo", "JailFee", "Fee", "Rent", "BoughtHouse"})

\* The step of this log ended the game by bankruptcy.
BankruptcyTriggered(log) == HasEvent(log, "GameOver") \/ HasEvent(log, "JailBankrupt")

\* Railroads and utilities.
NoHouseSquares == {5, 15, 25, 35, 12, 28}

\* Factor of the base rent for 0 to 5 houses.
RentMultiplier == << 1, 5, 15, 45, 80, 125 >>

\* C22 as claimed: the reward of a step is the sum of the acting player's
\* cash changes by movement over GO, cards, fees, rent and house purchases,
\* minus the bankruptcy penalty when the step ended the game, and nothing
\* else.
C22_RewardStep ==
  Stepped =>
    result'.reward = ClaimedRewardTerms(last_log')
                       - (IF BankruptcyTriggered(last_log') THEN BANKRUPTCY_PENALTY ELSE 0)

C22_RewardIsCashDelta == [][C22_RewardStep]_vars

\* C23: when the acting player ends on a square of another player with n
\* houses, the rent due is the base rent times 1, 5, 15, 45, 80, 125 for
\* n = 0 .. 5: the payer pays that amount, or all their cash when it is less.
C23_RentStep ==
  LET log == last_log'
      p == log.player
      pos == positions'[p]
      o == owner[pos]
  IN (Stepped /\ log.dice_roll > 0 /\ price(pos) > 0 /\ o # NO_OWNER /\ o # p)
       => /\ houses[pos] \in 0 .. 5
          /\ LET i == CHOOSE j \in EventIndices(log, "Rent") : TRUE
                 cash == log.money_before
                           + SumAmt(SubSeq(log.action_desc, 1, i - 1), AllTags)
                 due == rent(pos) * RentMultiplier[houses[pos] + 1]
             IN 0 - log.action_desc[i].amt = Min(cash, due)

C23_RentMultipliers == [][C23_RentStep]_vars

\* C23 witness: a player paid 125 times the base rent on a square with 5
\* houses.
C23_Witness ==
  /\ HasEvent(last_log, "Rent")
  /\ houses[positions[last_log.player]] = 5
  /\ last_log.fee_paid = 125 * rent(positions[last_log.player])
  /\ money[last_log.player] = last_log.money_before - last_log.fee_paid

\* C29 as claimed: a square with houses has an owner and is neither a
\* railroad nor a utility.
C29_HousesOnlyOnStreets ==
  \A i \in Squares :
    houses[i] > 0 => owner[i] # NO_OWNER /\ i \notin NoHouseSquares

\* C30 as claimed: while the game is not over every player's cash is >= 0.
C30_CashNonNegative ==
  ~done => \A i \in Players : money[i] >= 0

\* ------------------------------------------------------ reading the q_table
TableKeys(qt) == { qt.entries[i].key : i \in DOMAIN qt.entries }

\* The entries of qt are entries of qt2, with the same statistics.
EntriesKept(qt, qt2) ==
  \A i \in DOMAIN qt.entries : \E j \in DOMAIN qt2.entries : qt2.entries[j] = qt.entries[i]

\* The keys find_or_create_q_entry is tried with in every state: those of the
\* trajectories and one that never occurs in them.
LookupKeys ==
  TrajKeys \cup { [position |-> 4, money_bin |-> 13, current_prop_owner |-> 0 - 1, in_jail |-> 1] }

\* What one lookup of key in the table of the state does.
LookupIdempotent(key) ==
  LET f == find_or_create_q_entry(q_table, key)
      g == find_or_create_q_entry(f.table, key)
      entry == f.table.entries[f.index]
  IN /\ entry.key = key
     /\ IF key \in TableKeys(q_table)
          THEN f.table = q_table
          ELSE /\ f.table.count = q_table.count + 1
               /\ \A a \in Actions :
                    entry.values[a].sum_returns = 0 /\ entry.values[a].count = 0
               /\ EntriesKept(q_table, f.table)
               /\ TableKeys(f.table) = TableKeys(q_table) \cup {key}
     /\ g.table = f.table
     /\ g.index = f.index
     /\ g.table.entries[g.index] = entry

\* C24: the q_table holds one entry per distinct key, its count is the
\* number of its entries and the number of distinct keys looked up so far, a
\* lookup of a key it holds returns that entry and changes nothing, a lookup
\* of a new key adds one entry with sum 0 and count 0 for both actions and
\* leaves the others as they are, a second lookup returns the same entry, and
\* no step removes a key.
C24_Table ==
  /\ \A i, j \in DOMAIN q_table.entries :
       i # j => q_table.entries[i].key # q_table.entries[j].key
  /\ q_table.count = Len(q_table.entries)
  /\ q_table.count = Cardinality({ recorded[i].state : i \in DOMAIN recorded })
  /\ \A key \in LookupKeys : LookupIdempotent(key)

C24_Step == TableKeys(q_table) \subseteq TableKeys(q_table')

C26_Created ==
  /\ (env.num_players <= 0 \/ env.num_players > 8) => env.ptr = "NULL"
  /\ env.ptr = "allocated" =>
       /\ num_players = env.num_players
       /\ num_players \in 1 .. 8
       /\ DOMAIN positions = 0 .. (env.num_players - 1)
       /\ DOMAIN money = DOMAIN positions
       /\ DOMAIN in_jail = DOMAIN positions
       /\ DOMAIN jail_counters = DOMAIN positions

C26_Step ==
  (env' # env /\ env'.ptr = "NULL") => UNCHANGED << num_players, positions, money >>

C26_RejectsPlayerCount == []C26_Created /\ [][C26_Step]_vars

\* C26 witness: a call with 9 players returned no environment.
C26_Witness == env.ptr = "NULL" /\ env.num_players = MAX_PLAYERS + 1

\* C27: an environment create_monopoly_env returned has a starting cash
\* above 0.
C27_PositiveStartMoney ==
  env.ptr = "allocated" => (env.start_money > 0 /\ start_money > 0)

\* ------------------------------------------- failed trajectory allocation
\* C28: a history that lost a step to a failed allocation (it holds fewer
\* steps than the episode executed) is not applied to the q_table.
C28_Step ==
  (host_pc = "episode" /\ host_pc' = "generate" /\ Len(history) < steps_taken)
    => q_table' = q_table

C28_IncompleteNotApplied == [][C28_Step]_vars

\* ------------------------------------------------------ end of an episode
\* C21: a step of an episode of the training loop is executed only while
\* the game is not over and fewer than the step limit have been executed, and
\* it adds exactly one entry to the trajectory.
C21_Step ==
  (host_pc = "episode" /\ Stepped) =>
    /\ ~done
    /\ steps_taken < MaxSteps
    /\ Len(history') = Len(history) + 1

C21_OneEntryPerStep == [][C21_Step]_vars

\* -------------------------------------------------------------- money bin
\* C25: whenever the next key of a game with a positive starting cash is
\* built from the observation, its money component is the floor of the
\* hundredth of the cash of the player the observation names.
C25_MoneyBinIsFloor ==
  (env.ptr = "allocated" /\ start_money > 0 /\ ~done /\ within_bounds
     /\ obs.current_player \in DOMAIN obs.money)
    => get_state_tuple_c(obs).money_bin = money[obs.current_player] \div MONEY_BIN

\* ------------------------------------------------------------ rent transfer
\* C31: a step never decreases the cash of a player other than the acting
\* player, and the rent it transfers is never negative.
C31_Step ==
  Stepped =>
    /\ \A i \in Players : i # last_log'.player => money'[i] >= money[i]
    /\ \A j \in EventIndices(last_log', "Rent") : last_log'.action_desc[j].amt <= 0

C31_RentNonNegative == [][C31_Step]_vars

\* ------------------------------------------- the kernel and the turn engine
\* The working copy step_monopoly_env starts from when the environment is
\* the env_state s of a kernel thread, which has no houses.
ctx_of(s) ==
  [Ctx EXCEPT !.positions = s.positions, !.money = s.money, !.in_jail = s.in_jail,
              !.jail_counters = s.jail_counters, !.owner = s.property_owners,
              !.houses = [i \in Squares |-> 0], !.done = s.done]

\* What a step leaves of the game: places, cash, jail flags, owners, done.
game_of(c) ==
  [ positions |-> c.positions, money |-> c.money, in_jail |-> c.in_jail,
    owner |-> c.owner, done |-> c.done ]

\* step_monopoly_env from the dice roll of the normal turn on, as a function
\* of the working copy.
turn_outcome(c0, p, action, dice_total, card_index) ==
  LET c1 == movement(c0, p, c0.positions[p], dice_total)
      c2 == card_handling(c1, p, card_index)
      c3 == square_actions(c2, p, action)
  IN check_bankruptcy(c3, p)

\* Every game step_monopoly_env can leave when called on the game of s, over
\* all dice, cards and actions.
step_outcomes(s) ==
  LET p == s.current_player
      turns(c0) == { game_of(turn_outcome(c0, p, action, dice_total, card_index)) :
                       action \in Actions, dice_total \in DiceTotals,
                       card_index \in 0 .. (DECK_SIZE - 1) }
  IN IF s.in_jail[p]
       THEN UNION { LET c0 == jail_logic(ctx_of(s), p, dice1, dice2)
                    IN IF c0.turn_ends THEN { game_of(jail_bankruptcy(c0, p)) }
                                       ELSE turns(c0) :
                    dice1 \in DieFaces, dice2 \in DieFaces }
       ELSE turns(ctx_of(s))

\* C32: the game an iteration of the loop of a kernel thread leaves is one
\* step_monopoly_env can leave from the game the iteration started with, for
\* some dice, card and action.
C32_Step ==
  \A tid \in DOMAIN workers :
    (/\ workers[tid].pc = "loop"
     /\ tid \in DOMAIN workers'
     /\ workers'[tid].pc = "loop"
     /\ workers'[tid].step_count = workers[tid].step_count + 1)
      => LET t == workers'[tid].env_state
         IN [ positions |-> t.positions, money |-> t.money, in_jail |-> t.in_jail,
              owner |-> t.property_owners, done |-> t.done ]
              \in step_outcomes(workers[tid].env_state)

C32_KernelRefinesStep == [][C32_Step]_vars

\* ------------------------------------------------- the kernel's greedy choice
\* The iteration kernel thread tid is about to make.
IterationOf(tid) == kernel_iteration(workers[tid], d_episode_data[tid])

\* The transition is an iteration of the loop of kernel thread tid.
KernelStepped(tid) ==
  /\ tid \in DOMAIN workers
  /\ workers[tid].pc = "loop"
  /\ tid \in DOMAIN workers'
  /\ workers'[tid].pc = "loop"
  /\ workers'[tid].step_count = workers[tid].step_count + 1

\* The action with the higher mean stored in the q_table for a key.
HigherMeanOf(key) ==
  LET q0 == TableValue(q_table, key, 0).q_value
      q1 == TableValue(q_table, key, 1).q_value
  IN IF q1.num * q0.den > q0.num * q1.den THEN 1 ELSE 0

MeansDifferOf(key) ==
  ~q_values_tie(TableValue(q_table, key, 0).q_value, TableValue(q_table, key, 1).q_value)

\* C33: when a kernel thread that does not explore is offered a purchase
\* and the q_table holds different means for the two actions of the key, the
\* thread takes the action with the higher mean.
C33_Step ==
  \A tid \in DOMAIN workers :
    KernelStepped(tid) =>
      LET k == IterationOf(tid)
      IN (k.offered /\ ~k.explore /\ MeansDifferOf(k.state))
           => k.action = HigherMeanOf(k.state)

C33_KernelGreedy == [][C33_Step]_vars

\* -------------------------------------------------------------- liquidation
\* Sum of the function f over the set S.
RECURSIVE SumOver(_, _)
SumOver(f, S) ==
  IF S = {} THEN 0
  ELSE LET x == CHOOSE y \in S : TRUE IN f[x] + SumOver(f, S \ {x})

\* C34: in a step that finds the acting player's cash negative, the houses of
\* a square of the player are sold, for half the house cost each, exactly
\* when the cash is still negative after the sales on the player's squares
\* below it; a square of the player is forfeited, for half its price, exactly
\* when the cash is negative after all house sales and still negative after
\* the forfeits below it; the player ends with the cash so raised, the game is
\* done iff that is negative, every other square keeps its owner and houses,
\* and the cash of every other player changes only by the rent of the step.
C34_Step ==
  (Stepped /\ HasEvent(last_log', "Bankrupt")) =>
    LET log == last_log'
        p == log.player
        i0 == CHOOSE j \in EventIndices(log, "Bankrupt") : TRUE
        Below(S, i) == {j \in S : j < i}
        rent_to(q) == 0 - SumAmt(SelectSeq(log.action_desc, LAMBDA e : e.x = q), {"Rent"})
    IN \* each quantifier over a one-element set names one value
       \A cash0 \in {log.money_before + SumAmt(SubSeq(log.action_desc, 1, i0 - 1), AllTags)} :
       \A Owned \in {{i \in Squares : owner[i] = p}} :
       \A hv \in {[i \in Owned |-> houses[i] * (house_cost(i) \div 2)]} :
       \A pv \in {[i \in Owned |-> price(i) \div 2]} :
       \A Sold \in {{i \in Owned : houses[i] > 0 /\ cash0 + SumOver(hv, Below(Owned, i)) < 0}} :
       \A cash1 \in {cash0 + SumOver(hv, Sold)} :
       \A Forfeited \in {{i \in Owned : cash1 < 0 /\ cash1 + SumOver(pv, Below(Owned, i)) < 0}} :
       \A cash2 \in {cash1 + SumOver(pv, Forfeited)} :
         /\ cash0 < 0
         /\ houses' = [i \in Squares |-> IF i \in Sold THEN 0 ELSE houses[i]]
         /\ owner' = [i \in Squares |-> IF i \in Forfeited THEN NO_OWNER ELSE owner[i]]
         /\ money'[p] = cash2
         /\ done' = (cash2 < 0)
         /\ \A q \in Players \ {p} : money'[q] = money[q] + rent_to(q)

C34_LiquidationOrder == [][C34_Step]_vars

\* C34 witness: the player became solvent by selling the houses of one
\* square, and keeps houses on a later square and every square owned.
C34_Witness ==
  LET p == last_log.player
  IN /\ HasEvent(last_log, "Bankrupt")
     /\ Cardinality(EventIndices(last_log, "SoldHouses")) = 1
     /\ ~HasEvent(last_log, "SoldProperty")
     /\ ~done
     /\ money[p] >= 0
     /\ \E i, j \in Squares :
          /\ i < j
          /\ owner[i] = p /\ houses[i] = 0
          /\ \E e \in EventIndices(last_log, "SoldHouses") : last_log.action_desc[e].x = i
          /\ owner[j] = p /\ houses[j] > 0

\* ------------------------------------------------------------ house purchase
\* C35: a player who ends a move on an own square with fewer than 5 houses,
\* with cash >= house cost and action Buy, gets exactly one more house there
\* and pays the house cost once; in every other move that ends on an own
\* square, and on an unowned square with action Pass or a price above the
\* cash, the cash, the owners and the house counts stay as they are (steps
\* that liquidate are the subject of C34).
C35_Step ==
  LET log == last_log'
      p == log.player
      pos == positions'[p]
      cash == log.money_before + SumAmt(log.action_desc, {"PassedGO", "JailFee"})
      buys == /\ owner[pos] = p
              /\ houses[pos] < MAX_HOUSES
              /\ cash >= house_cost(pos)
              /\ log.agent_action = 1
      declines == /\ owner[pos] = NO_OWNER
                  /\ log.agent_action = 0 \/ cash < price(pos)
  IN (Stepped /\ log.dice_roll > 0 /\ price(pos) > 0) =>
       /\ buys =>
            /\ houses' = [houses EXCEPT ![pos] = @ + 1]
            /\ money' = [money EXCEPT ![p] = cash - house_cost(pos)]
            /\ owner' = owner
       /\ (((owner[pos] = p /\ ~buys) \/ declines) /\ ~HasEvent(log, "Bankrupt")) =>
            /\ houses' = houses
            /\ money' = [money EXCEPT ![p] = cash]
            /\ owner' = owner

SquareChargeTags == {"Fee", "Rent", "Buy", "BoughtHouse"}

\* The card drawn in the step of this log relocated the player.
RelocatedByCard(log) == log.card_drawn \in {"Advance to Go", "Go to Jail"}

\* C36: in every step with a move, (a) when the drawn card relocates the player
\* (to GO or to jail) the square resolution is that of the new position: no
\* tax, rent, purchase or house purchase is applied, the player ends on square
\* 0 or 10 and no other player's cash changes; (b) when the move ends on the
\* GoToJail square (30) the player ends on the jail square (10) with in_jail
\* set and jail_turn_count 0, the relocation happens exactly once, nothing is
\* charged for it and the reward holds no term for it.
C36_Step ==
  (Stepped /\ last_log'.dice_roll > 0) =>
    LET log == last_log'
        p == log.player
        desc == log.action_desc
        no_charge == \A t \in SquareChargeTags : ~HasEvent(log, t)
        cash == log.money_before + SumAmt(desc, {"PassedGO", "JailFee"})
    IN /\ RelocatedByCard(log) =>
            /\ no_charge
            /\ positions'[p] = (IF log.card_drawn = "Go to Jail" THEN JAIL_POSITION ELSE 0)
            /\ log.card_drawn = "Go to Jail" => in_jail'[p] /\ jail_counters'[p] = 0
            /\ \A q \in Players \ {p} : money'[q] = money[q]
            /\ ~HasEvent(log, "Bankrupt") =>
                 /\ owner' = owner
                 /\ houses' = houses
                 /\ money'[p] = cash + SumAmt(desc, {"AdvancedToGo"})
       /\ log.landed_on_position = GO_TO_JAIL_POSITION =>
            /\ no_charge
            /\ positions'[p] = JAIL_POSITION
            /\ in_jail'[p]
            /\ jail_counters'[p] = 0
            /\ Cardinality(EventIndices(log, "GoToJailSquare")) = 1
            /\ Cardinality(EventIndices(log, "MovedToJail")) = 1
            /\ \A q \in Players \ {p} : money'[q] = money[q]
            /\ ~HasEvent(log, "Bankrupt") =>
                 /\ owner' = owner
                 /\ houses' = houses
                 /\ money'[p] = cash
                 /\ result'.reward = SumAmt(desc, {"PassedGO", "JailFee"})

C36_ResolvesPositionAfterCard == [][C36_Step]_vars

\* C36 witness: the last move ended on the GoToJail square and the player is on
\* the jail square, in jail, with a turn count of 0 and the cash they had.
C36_Witness ==
  LET p == last_log.player
  IN /\ last_log.dice_roll > 0
     /\ last_log.landed_on_position = GO_TO_JAIL_POSITION
     /\ HasEvent(last_log, "GoToJailSquare")
     /\ positions[p] = JAIL_POSITION
     /\ in_jail[p]
     /\ jail_counters[p] = 0
     /\ money[p] = last_log.money_before

\* A card relocated the player in the last step: to GO, or to jail.
C36_CardToGo == last_log.card_drawn = "Advance to Go" /\ positions[last_log.player] = 0
C36_CardToJail == last_log.card_drawn = "Go to Jail" /\ in_jail[last_log.player]

\* ---------------------------------------------------------------------- C37
\* The jail fields of every player between steps.
C37_Inv ==
  \A i \in Players :
    /\ in_jail[i] => positions[i] = JAIL_POSITION
    /\ ~in_jail[i] => jail_counters[i] = 0
    /\ jail_counters[i] \in 0 .. (JAIL_TURNS - 1)
    /\ positions[i] # GO_TO_JAIL_POSITION

\* A player who starts their turn in jail with a turn count of 2 is released
\* in that step.
C37_Step ==
  (Stepped /\ in_jail[current_player] /\ jail_counters[current_player] = JAIL_TURNS - 1) =>
    /\ last_log'.player = current_player
    /\ Released(last_log')
    /\ last_log'.dice_roll > 0
    /\ jail_counters'[current_player] = 0

\* C37: between steps a player in jail is on the jail square (10), a player not
\* in jail has jail_turn_count 0, jail_turn_count is at most 2, nobody stands
\* on the GoToJail square (30), and a jailed player's third turn in jail
\* releases them.
C37_JailInvariant == []C37_Inv /\ [][C37_Step]_vars

\* C37 witness: a player who had failed two jail rolls was released by the fee
\* on their third turn in jail and moved off the jail square.
C37_Witness ==
  LET p == last_log.player
  IN /\ HasEvent(last_log, "JailFee")
     /\ last_log.position_before = JAIL_POSITION
     /\ ~in_jail[p]
     /\ jail_counters[p] = 0
     /\ positions[p] # JAIL_POSITION
     /\ \E q \in Players \ {p} : in_jail[q] /\ positions[q] = JAIL_POSITION

\* ---------------------------------------------------------------------- C38
\* C38: in every step of step_monopoly_env that changes no square's owner and
\* no square's house count (nothing bought, nothing sold or forfeited), the
\* returned reward is the acting player's cash after the step minus their cash
\* before it, less the bankruptcy penalty of 1000 when the step ends the game.
C38_Step ==
  (Stepped /\ owner' = owner /\ houses' = houses) =>
    LET p == current_player
    IN /\ last_log'.player = p
       /\ result'.reward = money'[p] - money[p]
                             - (IF done' /\ ~done THEN BANKRUPTCY_PENALTY ELSE 0)
       /\ last_log'.reward = result'.reward

C38_RewardIsCashDelta == [][C38_Step]_vars

\* C38 witness: the last step paid a positive rent and bought nothing, and its
\* reward is the negative cash change of the payer.
C38_Witness ==
  LET p == last_log.player
  IN /\ HasEvent(last_log, "Rent")
     /\ ~HasEvent(last_log, "Bankrupt")
     /\ money[p] < last_log.money_before
     /\ result.reward = money[p] - last_log.money_before
     /\ ~done

\* A step that ended the game without a sale: the reward carries the penalty.
C38_GameEnded ==
  /\ done
  /\ result.done
  /\ result.reward <= 0 - BANKRUPTCY_PENALTY
  /\ \A i \in Squares : owner[i] # last_log.player

\* ---------------------------------------------------------------------- C39
\* The environment fields the claim lists.
GameFields ==
  << positions, money, in_jail, jail_counters, owner, houses, current_player,
     steps_taken >>

\* The state reset_monopoly_env leaves.
FreshGame ==
  /\ positions = [i \in Players |-> 0]
  /\ money = [i \in Players |-> start_money]
  /\ in_jail = [i \in Players |-> FALSE]
  /\ jail_counters = [i \in Players |-> 0]
  /\ owner = [i \in Squares |-> NO_OWNER]
  /\ houses = [i \in Squares |-> 0]
  /\ current_player = 0
  /\ steps_taken = 0
  /\ ~done

\* C39: from a terminal state every transition is either a step that leaves
\* positions, cash, jail flags and counters, ownership, houses, current player
\* and step counter as they were, keeps done set and returns reward 0 with
\* done = true, or the reset; and every reset (the only transition that takes
\* the step counter back to 0 or clears done) leaves all players on square 0
\* with the starting cash and out of jail, all squares unowned without houses,
\* current player 0, step counter 0 and done cleared.
C39_Step ==
  /\ (done /\ done') =>
       /\ UNCHANGED GameFields
       /\ result' = [reward |-> 0, done |-> TRUE]
  /\ (done /\ ~done') => FreshGame'
  /\ (steps_taken' < steps_taken) => FreshGame'

C39_TerminalIsAbsorbing == [][C39_Step]_vars

\* C39 witness: the game ended with the bankruptcy penalty, a further step was
\* made on the terminal state (reward 0, done), and the step counter and log
\* are still those of the step that ended the game.
C39_Witness ==
  /\ done
  /\ result = [reward |-> 0, done |-> TRUE]
  /\ last_log.done
  /\ last_log.reward <= 0 - BANKRUPTCY_PENALTY
  /\ last_log.step = steps_taken

\* A reset of a finished game.
C39_ResetAfterEnd == FreshGame /\ result.done /\ last_log = ZeroLog

\* ---------------------------------------------------------------------- C40
\* The q_table update_mc leaves when it is called with history h on table qt.
TableAfter(qt, h) ==
  update_mc_loop([q_table |-> qt, visited |-> {}, G |-> 0, recorded |-> << >>],
                 h, Len(h)).q_table

\* The two tables hold the same keys and, for every key and action, the same
\* sum of returns, visit count and mean; the order of the entries is free.
SameValues(qt1, qt2) ==
  /\ TableKeys(qt1) = TableKeys(qt2)
  /\ \A key \in TableKeys(qt1) : \A a \in Actions :
       TableValue(qt1, key, a) = TableValue(qt2, key, a)

\* C40: when update_mc has merged a first and then a second trajectory into
\* the ValueStore, the sums of returns and visit counts of every (key, action)
\* are those the ValueStore holds when the second trajectory is merged before
\* the first.
C40_Step ==
  (updates = 1 /\ updates' = 2) =>
    \A h1 \in {history} : \A h2 \in {history'} :
      /\ SameValues(q_table, TableAfter(EmptyTable, h1))
      /\ SameValues(q_table', TableAfter(TableAfter(EmptyTable, h2), h1))

====
